---- MODULE Spec2Model ----
(***************************************************************************)
(* Agent execution graph and run orchestrator of Quip_Bot                  *)
(*   src/agent/src/agent/graph.py         the graph, its nodes, the cache  *)
(*   src/agent/src/agent/agent_runner.py  run_new_agent, run_agent,        *)
(*                                        update_tool_whitelist            *)
(*   src/agent/src/agent/tools/discovery.py    ToolDiscoveryService        *)
(*   src/agent/src/agent/redis/tool_publisher.py   ToolPublisherService    *)
(*   src/agent/src/agent/redis/client.py           RedisClient             *)
(*                                                                         *)
(* The graph library (checkpointer, interrupt, Command) is modelled by its *)
(* documented behaviour:                                                   *)
(*   - a checkpoint per thread_id holds the channel values and the node    *)
(*     that runs next; it is written after every node that completes;      *)
(*   - a dict input is merged into the channels (messages by add_messages, *)
(*     every other key by overwrite) and the run restarts at the entry     *)
(*     point, dropping whatever was pending;                               *)
(*   - Command(resume=v) continues at the pending node; a node that was    *)
(*     interrupted is run again from its first line, interrupt() number i  *)
(*     returning the i-th decision given so far;                           *)
(*   - an exception in a node leaves the checkpoint before that node.      *)
(***************************************************************************)
EXTENDS Integers, Sequences, FiniteSets, TLC

VARIABLES
    store,      \* InMemorySaver: thread_id -> checkpoint (values, next node, saved resume values)
    cache,      \* GraphCache: compiled graph (its bound tools) and tools_hash
    call,       \* the run_new_agent / run_agent generator being consumed
    mem,        \* channel values in memory of the running graph (objects nodes mutate in place)
    chunks,     \* chunks yielded by the current call, in order
    hist,       \* history: what the nodes did (examinations, executions, whitelist writes)
    ids,        \* tool-call ids handed out so far
    ops,        \* API calls started so far
    discovery,  \* ToolDiscoveryService: snapshot, remote client, failure memory; its latest call
    publisher,  \* ToolPublisherService: retry buffer, lock, callers; the durable list
    redis,      \* RedisClient: configuration, connection flag, the call in progress
    tasks,      \* get_graph coroutines of the event loop, each before or after its discovery
    available   \* whether the Redis server can be reached

vars == <<store, cache, call, mem, chunks, hist, ids, ops, discovery, publisher,
          redis, tasks, available>>

-----------------------------------------------------------------------------
(* Bounds *)

\* API calls (run_new_agent, run_agent, update_tool_whitelist) in a behaviour
MaxOps == 2
\* assistant turns that ask for tools in a behaviour
MaxTurns == 1

-----------------------------------------------------------------------------
(* Request data *)

\* (member, server, conversation) of a request
Triples == {<<1, 21, 3>>, <<12, 1, 3>>, <<1, 1, 3>>}
Channels == {5}
ToolNames == {"a", "b"}

\* member_message as run_new_agent / run_agent receive it
MessageKinds == {"text", "blank", "absent"}

\* the arguments a tool call carries as the language model wrote it: the keys of the
\* tool's schema, each with a value of the model's choosing
CtxMemberKeys == {"member_id", "memberId"}
CtxChannelKeys == {"channel_id", "channelId"}
ArgKeys(name) == IF name = "a" THEN {"member_id", "channelId", "q"} ELSE {"memberId", "channel_id"}
ModelValues == {99}
SpoofValues == ModelValues \cup {98}
SuppliedArgs(name, v) == [k \in ArgKeys(name) |-> v]

\* str(n) as the sequence of its decimal digits
RECURSIVE Str(_)
Str(n) == IF n < 10 THEN <<n>> ELSE Str(n \div 10) \o <<n % 10>>

\* _build_graph_config: thread_id = str(member_id) + str(server_id) + str(conversation_id)
ThreadId(member_id, server_id, conversation_id) ==
    Str(member_id) \o Str(server_id) \o Str(conversation_id)

ThreadIds == {ThreadId(t[1], t[2], t[3]) : t \in Triples}

-----------------------------------------------------------------------------
(* Values *)

\* Decision; approved is None ("none") when the request carries no decision
NoDecision == [approved |-> "none", tool_whitelist_update |-> {}]
Decisions == [approved : {"true", "false"}, tool_whitelist_update : {{}, {"b"}}]

\* text a language-model reply may carry, as a sequence of characters
Contents == {<<>>, <<" ">>, <<"x">>}

IsSpace(ch) == ch \in {" ", "\n"}

\* str.strip()
RECURSIVE Strip(_)
Strip(text) ==
    IF text = <<>> THEN <<>>
    ELSE IF IsSpace(Head(text)) THEN Strip(Tail(text))
    ELSE IF IsSpace(text[Len(text)]) THEN Strip(SubSeq(text, 1, Len(text) - 1))
    ELSE text

\* a message of the log: its role, its tool calls (assistant) or the call it answers (tool).
\* kind tells a tool result from the cancellation notice of reject_action.
Message(role, tool_calls, tool_call_id, kind) ==
    [role |-> role, tool_calls |-> tool_calls, tool_call_id |-> tool_call_id, kind |-> kind]

\* chunk handed to _format_json_response; "error" and "fallback" chunks carry no type field
Chunk(kind, tool_name) == [kind |-> kind, tool_name |-> tool_name]

\* the narration of progress_report (any non-blank text) and the question of an interrupt
Narration == <<"p">>
Question == <<"q">>
Rejection == <<"r">>

\* a thread the checkpointer has never seen: get_state(config).values is empty
EmptyCheckpoint ==
    [has |-> FALSE, messages |-> <<>>, server_id |-> 0, channel_id |-> 0, member_id |-> 0,
     conversation_id |-> 0, tool_call_ids |-> <<>>, tool_whitelist |-> {},
     next |-> "END", resumes |-> <<>>, interrupt |-> "none"]

IdleCall ==
    [op |-> "none", status |-> "idle", phase |-> "none", tid |-> <<>>,
     member_id |-> 0, server_id |-> 0, conversation_id |-> 0,
     member_message |-> "absent", decision |-> NoDecision, tool_whitelist |-> {},
     pass |-> "none", passes |-> 0, base |-> 0, last_content |-> <<>>, last |-> "none",
     resume |-> NoDecision, pass_error |-> FALSE, error_pass |-> 0,
     targets |-> {}, added |-> {}, removed |-> {},
     conversations |-> {}, updated |-> {}, failed |-> {}, counts |-> {},
     fetch |-> "none", all_tools |-> <<>>]

\* what the latest human_confirmation execution of the current call did
NoHC ==
    [outcome |-> "none", wl0 |-> {}, wl |-> {}, merged |-> {}, tool_name |-> "none",
     cleared |-> {}, refused |-> FALSE, early |-> FALSE, resumes |-> <<>>, idx |-> 0,
     used |-> FALSE]

Last(seq) == seq[Len(seq)]

\* tool calls of the latest message of a message log (empty when there is none)
PendingCalls(messages) ==
    IF messages = <<>> THEN <<>> ELSE Last(messages).tool_calls

CallIds(tool_calls) == {tool_calls[i].id : i \in 1..Len(tool_calls)}
CallNames(tool_calls) == {tool_calls[i].name : i \in 1..Len(tool_calls)}

-----------------------------------------------------------------------------
(* GraphCache.get_graph: discovery, then compile when no graph is cached or the
   fingerprint of the discovered tools differs from the stored one *)

\* what discover_tools gives in one call: the list of tools in the order found, or an error
ToolLists == {<<"a", "b">>, <<"b", "a">>, <<"a">>}
DiscoveryError == [ok |-> FALSE, tools |-> <<>>]
Discovered(tools) == [ok |-> TRUE, tools |-> tools]
Discoveries == {DiscoveryError, Discovered(<<"a", "b">>), Discovered(<<"a">>)}
Orders == {DiscoveryError} \cup {Discovered(tools) : tools \in ToolLists}

\* the signature of a tool stands for the string of its name, description and schema;
\* Rank is the order of these strings
Rank(signature) == IF signature = "a" THEN 1 ELSE 2

RECURSIVE Insert(_, _)
Insert(signature, sorted) ==
    IF sorted = <<>> THEN <<signature>>
    ELSE IF Rank(signature) <= Rank(Head(sorted)) THEN <<signature>> \o sorted
    ELSE <<Head(sorted)>> \o Insert(signature, Tail(sorted))

RECURSIVE Sort(_)
Sort(tool_signatures) ==
    IF tool_signatures = <<>> THEN <<>>
    ELSE Insert(Head(tool_signatures), Sort(Tail(tool_signatures)))

\* the fingerprint as written, and one that hashes the signatures in the order found
HashUnsorted(tools) == tools
_compute_tools_hash(tools) == Sort(tools)

\* the memory handle made with the cache
memory_saver == 1

\* graph: which compilation the cached graph is (0: none); checkpointer: the memory
\* handle the cached graph was compiled with (0: none)
NoCache ==
    [compiled |-> FALSE, tools |-> {}, tools_hash |-> <<>>, graph |-> 0,
     memory_saver |-> memory_saver, checkpointer |-> 0]

\* a compilation that makes a memory handle of its own
SetupWithNewSaver(c, all_tools, current_tools_hash, saver) ==
    [c EXCEPT !.compiled = TRUE, !.tools = {all_tools[i] : i \in DOMAIN all_tools},
              !.tools_hash = current_tools_hash, !.graph = @ + 1,
              !.checkpointer = c.graph + 2]

setup_graph(c, all_tools, current_tools_hash, saver) ==
    [c EXCEPT !.compiled = TRUE, !.tools = {all_tools[i] : i \in DOMAIN all_tools},
              !.tools_hash = current_tools_hash, !.graph = @ + 1,
              !.checkpointer = saver]

\* a cache that compiles once and never again
GetGraphOnce(c, d) ==
    IF ~c.compiled THEN setup_graph(c, d.tools, _compute_tools_hash(d.tools), c.memory_saver)
    ELSE c

get_graph(c, d) ==
    LET current_tools_hash == _compute_tools_hash(d.tools) IN
    IF ~c.compiled THEN setup_graph(c, d.tools, current_tools_hash, c.memory_saver)
    ELSE IF current_tools_hash # c.tools_hash
    THEN setup_graph(c, d.tools, current_tools_hash, c.memory_saver)
    ELSE c

\* the threads the graph of cache g reads and writes, saved being those of the graph of
\* cache c: the same when both graphs hold the same memory handle, else none yet
Checkpoints(c, g, saved) ==
    IF c.compiled /\ g.checkpointer # c.checkpointer
    THEN [tid \in ThreadIds |-> EmptyCheckpoint]
    ELSE saved

-----------------------------------------------------------------------------
(* The nodes of the graph, as functions of the state they are given *)

END == "END"

route_to_human_confirmation_before_tools(messages) ==
    IF Len(Last(messages).tool_calls) > 0 THEN "human_confirmation" ELSE END

\* graph.py:93  if tool_call['name'] in state["tool_whitelist"]: continue
WhitelistedAlways(tool_call, tool_whitelist) == TRUE
WhitelistedNever(tool_call, tool_whitelist) == FALSE
Whitelisted(tool_call, tool_whitelist) == tool_call.name \in tool_whitelist

\* graph.py:112  for tool in decision["tool_whitelist_update"]: tool_whitelist.add(tool)
MergeUpdate(tool_whitelist, decision) == tool_whitelist \cup decision.tool_whitelist_update

\* graph.py:118  if not decision["approved"]
RejectedNever(decision) == FALSE
Rejected(decision) == decision.approved # "true"

\* HumanConfirmationNode.__call__, the loop from tool call i on. r carries the set the
\* node mutates in place (wl), the decisions saved for this node (resumes), the number of
\* interrupt() calls so far (idx); resume is the value of Command(resume=...), if any;
\* fail_at is the tool call whose llm.invoke raises (0: none).
\* r also records what the loop saw, read off the data and not off the branch taken:
\* cleared (ids whose name was in the set when examined, or whose decision said
\* approved = true), refused (some decision did not), merged (names the decisions listed).
RECURSIVE ConfirmLoop(_, _, _, _, _)
ConfirmLoop(tool_calls, i, resume, fail_at, r) ==
    IF i > Len(tool_calls) THEN [r EXCEPT !.outcome = "progress_report"]
    ELSE LET tc == tool_calls[i] IN
        IF Whitelisted(tc, r.wl)
        THEN ConfirmLoop(tool_calls, i + 1, resume, fail_at,
                         [r EXCEPT !.cleared = @ \cup (IF tc.name \in r.wl THEN {tc.id} ELSE {})])
        ELSE IF fail_at = i THEN [r EXCEPT !.outcome = "exception"]
        ELSE IF r.idx >= Len(r.resumes) /\ (resume.approved = "none" \/ r.used)
        THEN [r EXCEPT !.outcome = "interrupt", !.tool_name = tc.name]
        ELSE LET saved == r.idx < Len(r.resumes)
                 decision == IF saved THEN r.resumes[r.idx + 1] ELSE resume
                 r1 == [r EXCEPT !.wl = MergeUpdate(@, decision),
                                 !.merged = @ \cup decision.tool_whitelist_update,
                                 !.resumes = IF saved THEN @ ELSE Append(@, resume),
                                 !.used = @ \/ ~saved,
                                 !.idx = @ + 1,
                                 !.refused = @ \/ decision.approved # "true",
                                 !.cleared = @ \cup (IF decision.approved = "true"
                                                     THEN {tc.id} ELSE {})]
             IN IF Rejected(decision)
                THEN [r1 EXCEPT !.outcome = "reject_action"]
                ELSE ConfirmLoop(tool_calls, i + 1, resume, fail_at, r1)

HumanConfirmation(state, resume, fail_at) ==
    LET r0 == [NoHC EXCEPT !.wl0 = state.tool_whitelist, !.wl = state.tool_whitelist,
                            !.resumes = state.resumes]
    IN IF state.messages = <<>> \/ PendingCalls(state.messages) = <<>>
       THEN [r0 EXCEPT !.outcome = "reject_action", !.early = TRUE]
       ELSE ConfirmLoop(PendingCalls(state.messages), 1, resume, fail_at, r0)

\* ContextInjectionNode.RUNTIME_SUBSTITUTIONS
SubstitutedKeys == CtxMemberKeys \cup CtxChannelKeys
Substitution(arg_name, state) ==
    IF arg_name \in CtxMemberKeys THEN state.member_id ELSE state.channel_id

InjectSnakeCaseOnly(args, state) ==
    [arg_name \in DOMAIN args |->
        IF arg_name \in {"member_id", "channel_id"} THEN Substitution(arg_name, state)
        ELSE args[arg_name]]

\* ContextInjectionNode.__call__, the arguments of one tool call
InjectArgs(args, state) ==
    [arg_name \in DOMAIN args |->
        IF arg_name \in SubstitutedKeys THEN Substitution(arg_name, state)
        ELSE args[arg_name]]

InjectCalls(tool_calls, state) ==
    [i \in 1..Len(tool_calls) |-> [tool_calls[i] EXCEPT !.args = InjectArgs(@, state)]]

\* a lookup state["member_id"] / state["channel_id"] on a thread whose state lacks the key
MissingContext(tool_calls, state) ==
    \E i \in 1..Len(tool_calls) : \E k \in DOMAIN tool_calls[i].args :
        /\ k \in SubstitutedKeys
        /\ Substitution(k, state) = 0

\* RejectActionNode.__call__: one cancellation notice per id of tool_call_ids
RejectMessages(tool_call_ids) ==
    [i \in 1..Len(tool_call_ids) |-> Message("tool", <<>>, tool_call_ids[i], "cancelled")]

ToolMessages(tool_calls) ==
    [i \in 1..Len(tool_calls) |-> Message("tool", <<>>, tool_calls[i].id, "result")]

-----------------------------------------------------------------------------
(* ToolDiscoveryService: tools, names and the state of the service *)

MaxTools == 2

\* a tool name is a string of characters; one remote server, "s", is configured
Names == {<<"t">>, <<"s", "-", "t">>}
Servers == {<<"s">>}
ServerTags == {"s", "none"}
TagOf(server_name) == "s"

NameLists == UNION {[1..n -> Names] : n \in 0..MaxTools}

\* the tools the tools directory can hold: none, one, two of one name, one named like a
\* remote tool
LocalLists == {<<>>, << <<"t">> >>, << <<"t">>, <<"t">> >>, << <<"s", "-", "t">> >>}

\* a tool object: its name and its _mcp_server_name attribute ("none": not set)
Tool(name, server_name) == [name |-> name, _mcp_server_name |-> server_name]
Tools == {Tool(name, server_name) : name \in Names, server_name \in ServerTags}
ChangeLists == UNION {[1..n -> Tools] : n \in 0..MaxTools}

\* what the remote source gives when asked: a list of tool names, or an error
RemoteError == [ok |-> FALSE, names |-> <<>>]
RemoteTools(names) == [ok |-> TRUE, names |-> names]
Remotes == {RemoteError} \cup {RemoteTools(names) : names \in NameLists}

\* the latest call of the service: its name, argument and outcome
\* (tick changes with every call; current_tools: the argument of a change detection; local, gathered, tools: the
\* built-in tools found, all tools found and the list returned by a discovery; remote:
\* what the remote source gave if it was asked, attempted: whether it was asked;
\* enabled, creatable: whether the configuration enables remote tools, and whether a
\* client could be made)
NoDiscoveryCall ==
    [op |-> "none", raised |-> FALSE, current_tools |-> <<>>, added |-> {}, removed |-> {},
     local |-> <<>>, gathered |-> <<>>, tools |-> <<>>,
     remote |-> RemoteError, attempted |-> FALSE, enabled |-> FALSE, creatable |-> FALSE,
     tick |-> FALSE]

\* ToolDiscoveryService.__init__; the snapshot is None (set = FALSE) or a set of names
NoDiscovery ==
    [_cached_tool_inventory |-> [set |-> FALSE, names |-> {}],
     _mcp_client |-> FALSE,
     _mcp_connection_failed |-> FALSE,
     last |-> NoDiscoveryCall]

-----------------------------------------------------------------------------
(* ToolPublisherService: the retry buffer, its callers and the durable list *)

\* capacity of the retry buffer
_max_queue_size == 2

\* messages are named by the order of their creation; the model creates MaxMessages of
\* them and lets the list grow to MaxPushes entries
MaxMessages == _max_queue_size + 1
MaxPushes == MaxMessages

\* the threads that call the service
Callers == {1, 2}

\* a caller outside any call; pc is its position inside a call, message the message it
\* has created and not yet sent or queued; op and result tell its latest call and what
\* publish_tool_changes returned (the count retry_queued_messages returns is left out),
\* changed whether that call was given any added or removed tool
IdleCaller ==
    [pc |-> "idle", op |-> "none", message |-> 0, result |-> "none", changed |-> FALSE]

\* ToolPublisherService.__init__, and an empty list at key tools:updates; lock is the
\* caller holding _queue_lock (0: free); created, dropped, cleared: the messages made so
\* far, those dropped on overflow and those removed by clear_queue; failed: how many
\* calls of publish_tool_changes in a row have failed, one after the other and with no
\* other call between or beside them
NoPublisher ==
    [_message_queue |-> <<>>,
     _redis_client |-> FALSE,
     lock |-> 0,
     callers |-> [t \in Callers |-> IdleCaller],
     list |-> <<>>,
     created |-> 0,
     dropped |-> {},
     cleared |-> {},
     failed |-> 0]

-----------------------------------------------------------------------------
(* RedisClient: its configuration, its connection and the call it is in *)

\* largest number of attempts a configuration allows (REDIS_RETRY_MAX_ATTEMPTS)
MaxAttempts == 3

\* the retry part of Config.get_redis_config: attempts, first delay, longest delay
RetryConfigs ==
    [max_attempts : 1..MaxAttempts, base_delay : {1, 2}, max_delay : {3}]

\* the call of connect or execute_with_retry the client is in. attempt, conn_attempt:
\* the loop variables of execute_with_retry and of connect; nested: connect was called
\* by execute_with_retry; outcomes, conn_outcomes: how the attempts of the call and of
\* its latest connect ended; operations: calls of the operation; delays, conn_delays:
\* the sleeps of the loop of execute_with_retry and of the latest connect; sleeps: all
\* calls of time.sleep during the call
IdleRedisCall ==
    [op |-> "none", pc |-> "idle", attempt |-> 0, conn_attempt |-> 0, nested |-> FALSE,
     outcomes |-> <<>>, conn_outcomes |-> <<>>, operations |-> 0,
     delays |-> <<>>, conn_delays |-> <<>>, sleeps |-> 0, result |-> "none"]

\* RedisClient.__init__ with the defaults of config_loader.py lines 40-42
NoRedis ==
    [_client |-> FALSE, _is_connected |-> FALSE,
     config |-> [max_attempts |-> 3, base_delay |-> 1, max_delay |-> 30],
     call |-> IdleRedisCall]

-----------------------------------------------------------------------------
(* get_graph as a coroutine: it is suspended while discover_tools waits *)

Tasks == {1, 2}

\* pc: idle, or discovered (discover_tools has returned all_tools); overtaken: another
\* call has returned since this one discovered; returned: the call has returned a graph
NoTask ==
    [pc |-> "idle", all_tools |-> <<>>, overtaken |-> FALSE, returned |-> FALSE]

-----------------------------------------------------------------------------
(* Initial state: nothing compiled, no thread, no call *)

\* fetched, last_tools, changes: whether get_graph has returned, the tools its latest
\* return had discovered, and how many returns had a fingerprint other than the return before
NoHist ==
    [cleared |-> {}, refused |-> {}, executed |-> {}, turns |-> 0,
     fetched |-> FALSE, last_tools |-> <<>>, changes |-> 0]

Init ==
    /\ store = [tid \in ThreadIds |-> EmptyCheckpoint]
    /\ cache = NoCache
    /\ call = IdleCall
    /\ mem = NoHC
    /\ chunks = <<>>
    /\ hist = NoHist
    /\ ids = 0
    /\ ops = 0
    /\ discovery = NoDiscovery
    /\ publisher = NoPublisher
    /\ redis = NoRedis
    /\ tasks = [t \in Tasks |-> NoTask]
    /\ available = TRUE

-----------------------------------------------------------------------------
(* Run orchestrator *)

Running == call.status = "running"
InGraph(node) == Running /\ call.phase = "graph" /\ store[call.tid].next = node
State == store[call.tid]

\* a generator that has ended: the message and decision it was given and how it ended are kept
Finished(c, status) ==
    [IdleCall EXCEPT !.op = c.op, !.status = status, !.passes = c.passes,
                     !.error_pass = c.error_pass, !.member_message = c.member_message,
                     !.decision = c.decision, !.fetch = c.fetch, !.all_tools = c.all_tools]

\* _process_stream: except Exception -> one error chunk, return
StreamError(c) ==
    /\ chunks' = Append(chunks, Chunk("error", "none"))
    /\ call' = [c EXCEPT !.phase = "after_pass", !.pass_error = TRUE, !.error_pass = c.passes]

\* graph.astream(state, config) with a dict: the input is merged into the thread's
\* channels and the run starts at the entry point; pending work is dropped
InitialState(cp, member_id, server_id, channel_id, conversation_id, tool_whitelist) ==
    [cp EXCEPT !.has = TRUE,
               !.messages = @ \o <<Message("system", <<>>, 0, "none"), Message("user", <<>>, 0, "none")>>,
               !.server_id = server_id, !.channel_id = channel_id,
               !.member_id = member_id, !.conversation_id = conversation_id,
               !.tool_whitelist = tool_whitelist,
               !.next = "agent", !.resumes = <<>>, !.interrupt = "none"]

\* the state of a follow-up built afresh, as _setup_agent builds the state of a new thread
FollowUpFresh(cp) ==
    [cp EXCEPT !.messages = Append(@, Message("user", <<>>, 0, "none")),
               !.tool_whitelist = {},
               !.next = "agent", !.resumes = <<>>, !.interrupt = "none"]

\* run_agent lines 213-216: the persisted values with the new message appended, fed as input
FollowUpState(cp) ==
    [cp EXCEPT !.messages = Append(@, Message("user", <<>>, 0, "none")),
               !.next = "agent", !.resumes = <<>>, !.interrupt = "none"]

\* run_agent lines 209-217, from a call record c that has yielded base chunks so far:
\* the message pass, or the return
MessagePass(c, base, saved) ==
    IF c.member_message = "blank"
    THEN /\ call' = Finished(c, "returned")
         /\ store' = saved
    ELSE IF ~saved[c.tid].has
    THEN \* line 214: values["messages"] of a thread without state
         /\ call' = Finished(c, "raised")
         /\ store' = saved
    ELSE /\ call' = [c EXCEPT !.pass = "message", !.passes = @ + 1, !.base = base,
                              !.phase = "graph",
                              !.last_content = <<>>, !.last = "none", !.pass_error = FALSE,
                              !.resume = NoDecision]
         /\ store' = [saved EXCEPT ![c.tid] = FollowUpState(@)]

\* the history of the returns of get_graph
Fetched(h, d) ==
    [h EXCEPT !.fetched = TRUE, !.last_tools = d.tools,
              !.changes = IF h.fetched /\ _compute_tools_hash(d.tools) # _compute_tools_hash(h.last_tools)
                          THEN @ + 1 ELSE @]

\* get_cached_graph in a call: what discovery gave, and whether get_graph returned
Fetching(c, d) ==
    [c EXCEPT !.fetch = IF d.ok THEN "ok" ELSE "raised", !.all_tools = d.tools]

\* _validate_message: a str that is not blank
ValidIfString(member_message) == member_message # "absent"
ValidMessage(member_message) == member_message = "text"

NewCall(op, member_id, server_id, conversation_id, member_message) ==
    [IdleCall EXCEPT !.op = op, !.tid = ThreadId(member_id, server_id, conversation_id),
                     !.member_id = member_id, !.server_id = server_id,
                     !.conversation_id = conversation_id, !.member_message = member_message]

run_new_agent(member_message, server_id, channel_id, member_id, conversation_id, tool_whitelist, d) ==
    LET c == [NewCall("run_new_agent", member_id, server_id, conversation_id, member_message)
                EXCEPT !.tool_whitelist = tool_whitelist]
    IN
    /\ ~Running
    /\ ops < MaxOps
    /\ ops' = ops + 1
    /\ UNCHANGED <<discovery, publisher, redis, tasks, available>>
    /\ mem' = NoHC
    /\ UNCHANGED ids
    /\ IF ~ValidMessage(member_message)
       THEN \* _member_message_validation
            /\ chunks' = <<Chunk("error", "none")>>
            /\ call' = Finished(c, "returned")
            /\ UNCHANGED <<store, cache, hist>>
       ELSE IF ~d.ok
       THEN \* get_cached_graph raises in _setup_agent
            /\ chunks' = <<>>
            /\ call' = Finished(Fetching(c, d), "raised")
            /\ UNCHANGED <<store, cache, hist>>
       ELSE /\ chunks' = <<>>
            /\ cache' = get_graph(cache, d)
            /\ hist' = Fetched(hist, d)
            /\ call' = [Fetching(c, d) EXCEPT !.status = "running", !.phase = "graph", !.pass = "new", !.passes = 1]
            /\ store' = [Checkpoints(cache, cache', store) EXCEPT ![c.tid] =
                            InitialState(@, member_id, server_id, channel_id, conversation_id, tool_whitelist)]

\* run_agent line 204: if approved is not None
DecidedIfApproved(decision) == decision.approved = "true"
Decided(decision) == decision.approved # "none"

run_agent(member_message, server_id, member_id, conversation_id, decision, d) ==
    LET c == Fetching([NewCall("run_agent", member_id, server_id, conversation_id, member_message)
                          EXCEPT !.decision = decision], d)
    IN
    /\ ~Running
    /\ ops < MaxOps
    /\ ops' = ops + 1
    /\ UNCHANGED <<discovery, publisher, redis, tasks, available>>
    /\ mem' = NoHC
    /\ chunks' = <<>>
    /\ UNCHANGED ids
    /\ IF ~d.ok
       THEN /\ call' = Finished(c, "raised")
            /\ UNCHANGED <<store, cache, hist>>
       ELSE /\ cache' = get_graph(cache, d)
            /\ hist' = Fetched(hist, d)
            /\ IF member_message = "absent"
               THEN \* _setup_agent line 98: member_message.strip() on None
                    /\ call' = Finished(c, "raised")
                    /\ store' = Checkpoints(cache, cache', store)
               ELSE IF Decided(decision)
               THEN \* Command(resume=...): continue the thread where it is pending
                    /\ call' = [c EXCEPT !.status = "running", !.pass = "resume", !.passes = 1,
                                         !.resume = decision,
                                         !.phase = IF Checkpoints(cache, cache', store)[c.tid].next = END
                                                   THEN "after_pass" ELSE "graph"]
                    /\ store' = Checkpoints(cache, cache', store)
               ELSE MessagePass([c EXCEPT !.status = "running"], 0, Checkpoints(cache, cache', store))

\* agent_runner.py:173  if not last_content
NoResponseNever(last_content) == FALSE
NoResponse(last_content) == last_content = <<>>

\* the end of _process_stream and what the generator does after it
FinishPass ==
    /\ Running
    /\ call.phase = "after_pass"
    /\ chunks' = IF ~call.pass_error /\ NoResponse(call.last_content)
                 THEN Append(chunks, Chunk("fallback", "none"))
                 ELSE chunks
    /\ IF call.op = "run_agent" /\ call.pass = "resume"
       THEN MessagePass(call, Len(chunks'), store)
       ELSE /\ call' = Finished(call, "returned")
            /\ UNCHANGED store
    /\ mem' = NoHC
    /\ UNCHANGED <<cache, hist, ids, ops, discovery, publisher, redis, tasks, available>>

\* the caller stops consuming the stream
Abandon ==
    /\ Running
    /\ call' = Finished(call, "abandoned")
    /\ mem' = NoHC
    /\ UNCHANGED <<store, cache, chunks, hist, ids, ops, discovery, publisher, redis, tasks, available>>

-----------------------------------------------------------------------------
(* Graph nodes as steps of the running pass *)

\* tool calls a language-model reply may carry: the tools it names, in order, with fresh ids
Batches == {<<>>, <<"a">>, <<"a", "b">>}

ToolCallBatches(first_id, v) ==
    { [i \in 1..Len(names) |->
          [id |-> first_id + i, name |-> names[i], args |-> SuppliedArgs(names[i], v)]]
      : names \in Batches }

\* agent: llm_with_tools.invoke(state["messages"]); _process_stream lines 162-166
AgentNode ==
    /\ InGraph("agent")
    /\ UNCHANGED <<cache, mem, ops, discovery, publisher, redis, tasks, available>>
    /\ \/ /\ StreamError(call)
          /\ UNCHANGED <<store, hist, ids>>
       \/ \E content \in Contents, v \in ModelValues : \E tool_calls \in ToolCallBatches(ids, v) :
            LET ai == Message("ai", tool_calls, 0, "none")
                messages == Append(State.messages, ai)
                to == route_to_human_confirmation_before_tools(messages)
                last_content == Strip(content)
            IN
            /\ tool_calls # <<>> => hist.turns < MaxTurns
            /\ store' = [store EXCEPT ![call.tid].messages = messages, ![call.tid].next = to,
                                      ![call.tid].resumes = <<>>,
                                      ![call.tid].interrupt = "none"]
            /\ chunks' = IF last_content # <<>>
                         THEN Append(chunks, Chunk("update", "none"))
                         ELSE chunks
            /\ call' = [call EXCEPT !.last_content = last_content, !.last = "agent",
                                    !.resume = NoDecision,
                                    !.phase = IF to = END THEN "after_pass" ELSE "graph"]
            /\ ids' = ids + Len(tool_calls)
            /\ hist' = [hist EXCEPT
                          !.turns = IF tool_calls # <<>> THEN @ + 1 ELSE @]

\* human_confirmation
HumanConfirmationNode ==
    /\ InGraph("human_confirmation")
    /\ UNCHANGED <<cache, ids, ops, discovery, publisher, redis, tasks, available>>
    /\ \E fail_at \in 0..Len(PendingCalls(State.messages)) :
        LET tool_calls == PendingCalls(State.messages)
            r == HumanConfirmation(State, call.resume, fail_at)
        IN
        /\ fail_at # 0 => r.outcome = "exception"
        /\ mem' = r
        /\ CASE r.outcome = "exception" ->
                  \* the node fails; the decisions it consumed stay saved with the checkpoint
                  /\ StreamError(call)
                  /\ store' = [store EXCEPT ![call.tid].resumes = r.resumes]
                  /\ UNCHANGED hist
             [] r.outcome = "interrupt" ->
                  \* _process_stream lines 147-159
                  /\ chunks' = Append(chunks, Chunk("interrupt", r.tool_name))
                  /\ call' = [call EXCEPT !.last_content = Question, !.last = "human_confirmation",
                                          !.resume = NoDecision, !.phase = "after_pass"]
                  /\ store' = [store EXCEPT ![call.tid].resumes = r.resumes,
                                            ![call.tid].interrupt = r.tool_name]
                  /\ UNCHANGED hist
             [] r.outcome = "progress_report" ->
                  \* Command(goto="progress_report", update={"tool_whitelist": tool_whitelist})
                  /\ chunks' = chunks
                  /\ call' = [call EXCEPT !.last = "human_confirmation", !.resume = NoDecision]
                  /\ store' = [store EXCEPT ![call.tid].tool_whitelist = r.wl,
                                            ![call.tid].next = "progress_report",
                                            ![call.tid].resumes = <<>>,
                                            ![call.tid].interrupt = "none"]
                  /\ hist' = [hist EXCEPT !.cleared = @ \cup r.cleared,
                                          !.refused = @ \cup (IF r.refused THEN CallIds(tool_calls) ELSE {})]
             [] r.outcome = "reject_action" ->
                  \* Command(goto="reject_action", update={"tool_call_ids": tool_call_ids})
                  /\ chunks' = chunks
                  /\ call' = [call EXCEPT !.last = "human_confirmation", !.resume = NoDecision]
                  /\ store' = [store EXCEPT ![call.tid].tool_call_ids =
                                                IF ~r.early
                                                THEN [i \in 1..Len(tool_calls) |-> tool_calls[i].id]
                                                ELSE @,
                                            ![call.tid].next = "reject_action",
                                            ![call.tid].resumes = <<>>,
                                            ![call.tid].interrupt = "none"]
                  /\ hist' = [hist EXCEPT !.refused = @ \cup (IF r.refused THEN CallIds(tool_calls) ELSE {})]

\* progress_report: one narration per tool call, written to the custom stream
ProgressReportNode ==
    /\ InGraph("progress_report")
    /\ UNCHANGED <<cache, mem, hist, ids, ops, discovery, publisher, redis, tasks, available>>
    /\ \E fail_at \in 0..Len(PendingCalls(State.messages)) :
        LET tool_calls == PendingCalls(State.messages)
            done == IF fail_at = 0 THEN Len(tool_calls) ELSE fail_at - 1
            out == chunks \o [i \in 1..done |-> Chunk("progress", "none")]
            c == [call EXCEPT !.last_content = IF done > 0 THEN Narration ELSE @,
                              !.last = "progress_report", !.resume = NoDecision]
        IN
        IF fail_at # 0
        THEN /\ chunks' = Append(out, Chunk("error", "none"))
             /\ call' = [c EXCEPT !.phase = "after_pass", !.pass_error = TRUE, !.error_pass = c.passes]
             /\ UNCHANGED store
        ELSE /\ chunks' = out
             /\ call' = c
             /\ store' = [store EXCEPT ![call.tid].next = "context_injection",
                                       ![call.tid].resumes = <<>>,
                                       ![call.tid].interrupt = "none"]

\* context_injection
ContextInjectionNode ==
    /\ InGraph("context_injection")
    /\ UNCHANGED <<cache, mem, hist, ids, ops, discovery, publisher, redis, tasks, available>>
    /\ LET messages == State.messages
           tool_calls == PendingCalls(messages)
       IN
       IF MissingContext(tool_calls, State)
       THEN /\ StreamError(call)
            /\ UNCHANGED store
       ELSE /\ chunks' = chunks
            /\ call' = [call EXCEPT !.last = "context_injection", !.resume = NoDecision]
            /\ store' = [store EXCEPT
                           ![call.tid].messages =
                               IF messages = <<>> THEN messages
                               ELSE [messages EXCEPT ![Len(messages)].tool_calls = InjectCalls(@, State)],
                           ![call.tid].next = "tools",
                           ![call.tid].resumes = <<>>,
                           ![call.tid].interrupt = "none"]

Execution(tool_call, state) ==
    [id |-> tool_call.id, name |-> tool_call.name, args |-> tool_call.args,
     member_id |-> state.member_id, channel_id |-> state.channel_id]

\* tools: ToolNode runs the tool calls of the latest message that name a bound tool;
\* fail_at is the tool call whose invocation raises (0: none)
ToolsNode ==
    /\ InGraph("tools")
    /\ UNCHANGED <<cache, mem, ids, ops, discovery, publisher, redis, tasks, available>>
    /\ \E fail_at \in 0..Len(PendingCalls(State.messages)) :
        LET tool_calls == PendingCalls(State.messages)
            done == IF fail_at = 0 THEN Len(tool_calls) ELSE fail_at
            ran == {Execution(tool_calls[i], State) :
                        i \in {j \in 1..done : tool_calls[j].name \in cache.tools}}
        IN
        /\ fail_at # 0 => tool_calls[fail_at].name \in cache.tools
        /\ hist' = [hist EXCEPT !.executed = @ \cup ran]
        /\ IF fail_at # 0
           THEN /\ StreamError(call)
                /\ UNCHANGED store
           ELSE /\ chunks' = chunks
                /\ call' = [call EXCEPT !.last = "tools", !.resume = NoDecision]
                /\ store' = [store EXCEPT ![call.tid].messages = @ \o ToolMessages(tool_calls),
                                          ![call.tid].next = "agent",
                                          ![call.tid].resumes = <<>>,
                                          ![call.tid].interrupt = "none"]

\* reject_action. The node returns the state it was given: the whitelist it writes back is
\* the set object of that state, which human_confirmation of the same pass may have
\* mutated in place (aliased) or not.
RejectActionNode ==
    /\ InGraph("reject_action")
    /\ UNCHANGED <<cache, mem, hist, ids, ops, discovery, publisher, redis, tasks, available>>
    /\ \E aliased \in BOOLEAN :
        LET seen == IF aliased /\ mem.outcome = "reject_action" THEN mem.wl ELSE State.tool_whitelist
        IN
        /\ aliased => mem.outcome = "reject_action" /\ mem.wl # State.tool_whitelist
        /\ chunks' = Append(chunks, Chunk("progress", "none"))
        /\ call' = [call EXCEPT !.last_content = Rejection, !.last = "reject_action",
                                !.resume = NoDecision, !.phase = "after_pass"]
        /\ store' = [store EXCEPT ![call.tid].messages = @ \o RejectMessages(State.tool_call_ids),
                                  ![call.tid].tool_whitelist = seen,
                                  ![call.tid].next = END,
                                  ![call.tid].resumes = <<>>,
                                  ![call.tid].interrupt = "none"]

-----------------------------------------------------------------------------
(* Bulk whitelist update *)

\* the node update_state attributes the write to is the one that ran last; what is pending
\* afterwards is what follows that node by the edges of the graph. human_confirmation has
\* no edge of its own (it routes by Command), so a pending progress_report is dropped.
NextAfterUpdate(cp) ==
    IF ~cp.has THEN "agent"
    ELSE IF cp.next = "progress_report" THEN END
    ELSE cp.next

\* update_tool_whitelist lines 317-331 for one conversation
UpdatedIgnoringRemoved(current_whitelist, added_tools, removed_tools) ==
    current_whitelist \cup added_tools

UpdatedWhitelist(current_whitelist, added_tools, removed_tools) ==
    (current_whitelist \cup added_tools) \ removed_tools

UpdateState(cp, added_tools, removed_tools) ==
    [cp EXCEPT !.has = TRUE,
               !.tool_whitelist = UpdatedWhitelist(@, added_tools, removed_tools),
               !.next = NextAfterUpdate(cp),
               !.resumes = <<>>,
               !.interrupt = IF NextAfterUpdate(cp) = "human_confirmation" THEN @ ELSE "none"]

\* lines 318-336: updated_whitelist is current_whitelist itself (line 321 binds a second
\* name to the one set), so both counts of the result are taken after the changes
ToolCounts(conversation, current_whitelist, added_tools, removed_tools) ==
    LET updated_whitelist == UpdatedWhitelist(current_whitelist, added_tools, removed_tools)
    IN [conversation |-> conversation,
        previousToolCount |-> Cardinality(updated_whitelist),
        newToolCount |-> Cardinality(updated_whitelist)]

ToolChanges == {<<{"a"}, {}>>, <<{"b"}, {"a"}>>}

\* update_tool_whitelist line 310: get_state(config).values of a thread the checkpointer
\* has never seen is an empty dict, not None
ValuesMissing(cp) == FALSE

Failure(conversation, error) == [conversation |-> conversation, error |-> error]

\* update_tool_whitelist. failing: threads without state for which update_state raises;
\* unreadable: threads for which get_state raises, which ends the call where it stands,
\* the conversations in before having been processed.
update_tool_whitelist(conversations, added_tools, removed_tools, d, failing, unreadable) ==
    LET tidOf(t) == ThreadId(t[1], t[2], t[3])
        targets == {tidOf(t) : t \in conversations}
        c == Fetching([IdleCall EXCEPT !.op = "update_tool_whitelist",
                                       !.conversations = conversations,
                                       !.added = added_tools, !.removed = removed_tools], d)
        saved == IF d.ok THEN Checkpoints(cache, get_graph(cache, d), store) ELSE store
    IN
    /\ ~Running
    /\ ops < MaxOps
    /\ ops' = ops + 1
    /\ UNCHANGED <<discovery, publisher, redis, tasks, available>>
    /\ mem' = NoHC
    /\ chunks' = <<>>
    /\ UNCHANGED ids
    /\ failing \subseteq {tid \in targets : ~saved[tid].has}
    /\ unreadable \subseteq targets
    /\ IF ~d.ok
       THEN /\ call' = [c EXCEPT !.status = "raised"]
            /\ UNCHANGED <<store, cache, hist>>
       ELSE \E before \in SUBSET (targets \ unreadable) :
            LET processed == IF unreadable = {} THEN targets ELSE before
                missing == {tid \in processed : ValuesMissing(saved[tid])}
                written == processed \ (missing \cup failing)
            IN
            /\ unreadable = {} => before = targets
            /\ cache' = get_graph(cache, d)
            /\ hist' = Fetched(hist, d)
            /\ call' = [c EXCEPT
                          !.status = IF unreadable = {} THEN "returned" ELSE "aborted",
                          !.targets = written,
                          !.updated = {t \in conversations : tidOf(t) \in written},
                          !.counts = {ToolCounts(t, saved[tidOf(t)].tool_whitelist,
                                                 added_tools, removed_tools) :
                                         t \in {u \in conversations : tidOf(u) \in written}},
                          !.failed = {Failure(t, "No state found") :
                                          t \in {u \in conversations : tidOf(u) \in missing}}
                                     \cup {Failure(t, "update_state") :
                                          t \in {u \in conversations :
                                                    tidOf(u) \in (processed \cap failing) \ missing}}]
            /\ store' = [tid \in ThreadIds |->
                            IF tid \in written
                            THEN UpdateState(saved[tid], added_tools, removed_tools)
                            ELSE saved[tid]]

-----------------------------------------------------------------------------
(* Specification *)

NewAgentCall(triples, kinds, discoveries) ==
    \E member_message \in kinds, t \in triples, channel_id \in Channels,
       tool_whitelist \in {{}, {"a"}}, d \in discoveries :
        run_new_agent(member_message, t[2], channel_id, t[1], t[3], tool_whitelist, d)

AgentCall(triples, kinds, decisions, discoveries) ==
    \E member_message \in kinds, t \in triples, decision \in decisions, d \in discoveries :
        run_agent(member_message, t[2], t[1], t[3], decision, d)

WhitelistCall(triples, discoveries) ==
    \E conversations \in {cs \in SUBSET triples : Cardinality(cs) \in 1..2},
       change \in ToolChanges, d \in discoveries, failing \in SUBSET ThreadIds,
       unreadable \in SUBSET ThreadIds :
        update_tool_whitelist(conversations, change[1], change[2], d, failing, unreadable)

\* the requests of one member in one conversation, with the tools that are registered
OneThread == {<<1, 21, 3>>}
Registered == {DiscoveryError, Discovered(<<"a", "b">>)}

Next ==
    \/ NewAgentCall(OneThread, MessageKinds, Registered)
    \/ AgentCall(OneThread, MessageKinds, Decisions \cup {NoDecision}, Registered)
    \/ WhitelistCall(OneThread, Registered)
    \/ AgentNode
    \/ HumanConfirmationNode
    \/ ProgressReportNode
    \/ ContextInjectionNode
    \/ ToolsNode
    \/ RejectActionNode
    \/ FinishPass
    \/ Abandon

Spec == Init /\ [][Next]_vars

-----------------------------------------------------------------------------
(* Approval gate and confirmation *)

ExecutedIds == {e.id : e \in hist.executed}

\* C1. Approval gate: a tool call is executed only if the confirmation step found its
\* name in the thread's whitelist when it examined the call, or the call received a
\* decision with approved = true.
ApprovalGate == \A e \in hist.executed : e.id \in hist.cleared

\* a tool call that was not whitelisted has run on the strength of a decision
ApprovedToolRan ==
    /\ Running /\ call.last = "tools"
    /\ mem.outcome = "progress_report" /\ mem.idx > 0
    /\ \E e \in hist.executed : e.id \in mem.cleared /\ e.name \notin mem.wl0

\* the batch whose rejection reject_action has just answered: the latest assistant
\* message of the log, and the messages that follow it
LastAssistant(messages) ==
    CHOOSE i \in 1..Len(messages) :
        /\ messages[i].role = "ai"
        /\ \A j \in (i + 1)..Len(messages) : messages[j].role # "ai"

Cancelled(messages, i) ==
    {messages[j].tool_call_id : j \in {n \in (i + 1)..Len(messages) : messages[n].kind = "cancelled"}}

\* C2. Confirmation all-or-nothing: when a decision for a tool call of a batch says
\* approved = false, reject_action leaves a cancellation message for every id of the
\* batch, no tool call of the batch is ever executed, and the pass ends there: END is
\* next, the language model is not asked again.
AllOrNothing ==
    /\ hist.refused \cap ExecutedIds = {}
    /\ (Running /\ call.last = "reject_action" /\ mem.refused) =>
          LET messages == State.messages
              i == LastAssistant(messages)
          IN /\ CallIds(messages[i].tool_calls) \subseteq hist.refused
             /\ CallIds(messages[i].tool_calls) = Cancelled(messages, i)
             /\ Len(messages) = i + Len(messages[i].tool_calls)
             /\ State.next = END
             /\ call.phase = "after_pass"

\* a batch of two tool calls, the first one whitelisted, the second one refused
BatchRefused ==
    /\ Running /\ call.last = "reject_action" /\ mem.refused
    /\ mem.cleared # {}
    /\ Len(State.tool_call_ids) > 1

\* C3. Whitelist bypass: no interrupt is raised for a tool call whose name is in the
\* whitelist when it is examined, and a batch whose names are all whitelisted goes on
\* to progress_report without any interrupt() call.
WhitelistBypass ==
    (Running /\ call.last = "human_confirmation") =>
        /\ mem.outcome = "interrupt" => mem.tool_name \notin mem.wl
        /\ (PendingCalls(State.messages) # <<>>
              /\ CallNames(PendingCalls(State.messages)) \subseteq mem.wl0) =>
                 mem.outcome = "progress_report" /\ mem.idx = 0

\* a batch of whitelisted tool calls has passed the confirmation step
WhitelistedBatchPassed ==
    /\ Running /\ call.last = "human_confirmation"
    /\ PendingCalls(State.messages) # <<>>
    /\ CallNames(PendingCalls(State.messages)) \subseteq mem.wl0
    /\ mem.outcome = "progress_report"
    /\ State.next = "progress_report"

\* C4. Once the confirmation step has completed, the persisted whitelist holds every
\* name the decisions listed in tool_whitelist_update, whether they approved or not.
UpdateRecorded ==
    (Running /\ call.last = "human_confirmation" /\ mem.outcome \in {"progress_report", "reject_action"}) =>
        mem.merged \subseteq State.tool_whitelist

-----------------------------------------------------------------------------
(* Whitelist writes *)

\* the whitelist of an existing thread differs after the step
WhitelistChanged(tid) ==
    store[tid].has /\ store'[tid].tool_whitelist # store[tid].tool_whitelist

\* the step is the confirmation step, or the rejection that follows it, writing the
\* names the decisions of this pass listed
DecisionWrite(tid) ==
    /\ Running /\ call.tid = tid
    /\ store[tid].next \in {"human_confirmation", "reject_action"}
    /\ store'[tid].tool_whitelist = store[tid].tool_whitelist \cup mem'.merged
    /\ mem'.merged # {}

\* the step is a call of update_tool_whitelist that names the thread
BulkWrite(tid) ==
    /\ ~Running /\ call'.op = "update_tool_whitelist" /\ tid \in call'.targets
    /\ store'[tid].tool_whitelist =
           UpdatedWhitelist(store[tid].tool_whitelist, call'.added, call'.removed)

\* the step is a call of run_new_agent on the thread, which writes the request's whitelist
NewTurnWrite(tid) ==
    /\ ~Running /\ call'.op = "run_new_agent" /\ call'.tid = tid
    /\ store'[tid].tool_whitelist = call'.tool_whitelist

-----------------------------------------------------------------------------
(* Pending confirmations *)

\* the thread is suspended at a confirmation it has surfaced by an interrupt
Pending(s, tid) == s[tid].next = "human_confirmation" /\ s[tid].interrupt # "none"

\* the step belongs to a resume pass on the thread: a decision is being delivered
ResumeStep(tid) == Running /\ call.tid = tid /\ call.pass = "resume"

\* C7. Once an interrupt chunk was emitted for a thread, its confirmation stays pending
\* until a resume with a decision is issued for it: no other step (abandoning the
\* stream, a bulk whitelist update, a message without a decision) discards it or executes
\* its tool calls.
StaysPending ==
    [][\A tid \in ThreadIds :
          (Pending(store, tid) /\ ~ResumeStep(tid)) =>
              /\ Pending(store', tid)
              /\ hist'.executed = hist.executed]_vars

-----------------------------------------------------------------------------
(* Context injection *)

-----------------------------------------------------------------------------
(* The stream of a call *)

AgentCalls == {"run_new_agent", "run_agent"}

\* C9. Never-silent stream: a call of run_new_agent or run_agent that has ended has
\* ended by returning, has yielded at least one chunk, and its last chunk is content,
\* the "No response generated" chunk or an error chunk.
NeverSilent ==
    (call.op \in AgentCalls /\ call.status \in {"returned", "raised"}) =>
        /\ call.status = "returned"
        /\ chunks # <<>>
        /\ Last(chunks).kind \in {"update", "progress", "interrupt", "fallback", "error"}

\* C10. After the error chunk of an exception raised while the graph streams, the call
\* yields no further chunk and does not invoke the graph again.
ErrorEndsCall ==
    (call.op \in AgentCalls /\ call.error_pass > 0) =>
        /\ Last(chunks).kind = "error"
        /\ call.passes = call.error_pass

-----------------------------------------------------------------------------
(* Several members and servers *)

\* two requests whose member and server differ and whose ids concatenate alike
Colliding == {<<1, 21, 3>>, <<12, 1, 3>>}

NextThreads ==
    \/ NewAgentCall(Colliding, {"text"}, Discoveries)
    \/ AgentCall(Colliding, {"text", "blank"}, Decisions \cup {NoDecision}, Discoveries)
    \/ WhitelistCall(Triples, Discoveries)
    \/ AgentNode
    \/ HumanConfirmationNode
    \/ ProgressReportNode
    \/ ContextInjectionNode
    \/ ToolsNode
    \/ RejectActionNode
    \/ FinishPass
    \/ Abandon

SpecThreads == Init /\ [][NextThreads]_vars

\* C6. Requests with different (member, server, conversation) work on different
\* threads: the thread a call runs on holds no state, or the state of the call's own
\* member, server and conversation.
ThreadsIndependent ==
    (Running /\ call.op \in AgentCalls /\ State.has /\ State.member_id # 0) =>
        /\ State.member_id = call.member_id
        /\ State.server_id = call.server_id
        /\ State.conversation_id = call.conversation_id

-----------------------------------------------------------------------------
(* Chunks of a pass *)

\* the pass of the running call is over and _process_stream is at its last lines
PassOver == Running /\ call.phase = "after_pass"

\* C11. Empty-turn fallback: a graph pass that ends without an exception and has yielded
\* no chunk yields exactly one chunk, the "No response generated" chunk, as the next
\* thing the generator does (unless the caller has stopped consuming it).
EmptyTurnFallback ==
    [][(PassOver /\ ~call.pass_error /\ Len(chunks) = call.base /\ call'.status # "abandoned") =>
          chunks' = Append(chunks, Chunk("fallback", "none"))]_vars

\* a call whose only pass yielded nothing of its own has ended with the fallback chunk alone
OnlyFallback ==
    /\ call.op \in AgentCalls /\ call.status = "returned" /\ call.passes = 1
    /\ chunks = <<Chunk("fallback", "none")>>

-----------------------------------------------------------------------------
(* Content of the chunks: _format_json_response applied by _process_stream *)

\* longest text a language model, a tool or an exception supplies
MaxLen == 3
\* chunks of a stream whose content is followed
MaxChunks == 1

Chars == {"x", " ", "\n"}

RECURSIVE Texts(_)
Texts(n) == IF n = 0 THEN {<<>>}
            ELSE Texts(n - 1) \cup {Append(t, ch) : t \in {u \in Texts(n - 1) : Len(u) = n - 1}, ch \in Chars}

\* _format_json_response: the content field after formatting
FormatContent(content) ==
    IF content # <<>> /\ Last(content) # "\n" THEN Append(content, "\n") ELSE content

Response(kind, content) == [kind |-> kind, content |-> FormatContent(content)]

\* the fixed texts _process_stream and the nodes put around what they are given
ApprovePrefix == <<"D", "o", " ">>
ErrorPrefix == <<"E", ":", " ">>
NoResponseText == <<"N", "o">>

\* nothing but the stream changes while _process_stream formats and yields
StreamOnly == UNCHANGED <<store, cache, call, mem, hist, ids, ops, discovery, publisher, redis, tasks, available>>

\* lines 131-141: a progress chunk carries chunk['progress'] as written by the node
YieldProgress(text) ==
    /\ StreamOnly
    /\ Len(chunks) < MaxChunks
    /\ chunks' = Append(chunks, Response("progress", text))

\* graph.py:107 and lines 153-157: the interrupt request around the model's text
YieldInterrupt(text) ==
    /\ StreamOnly
    /\ Len(chunks) < MaxChunks
    /\ chunks' = Append(chunks, Response("interrupt", ApprovePrefix \o text \o <<"?">>))

\* lines 162-165: the agent's reply, stripped, yielded when not empty
YieldUpdate(text) ==
    /\ StreamOnly
    /\ Len(chunks) < MaxChunks
    /\ Strip(text) # <<>>
    /\ chunks' = Append(chunks, Response("update", Strip(text)))

\* line 170: f"Error: {str(e)}"
YieldError(text) ==
    /\ StreamOnly
    /\ Len(chunks) < MaxChunks
    /\ chunks' = Append(chunks, Response("error", ErrorPrefix \o text))

\* line 175
YieldFallback ==
    /\ StreamOnly
    /\ Len(chunks) < MaxChunks
    /\ chunks' = Append(chunks, Response("fallback", NoResponseText))

NextFormat ==
    \/ \E text \in Texts(MaxLen) : YieldProgress(text)
    \/ \E text \in Texts(MaxLen) : YieldInterrupt(text)
    \/ \E text \in Texts(MaxLen) : YieldUpdate(text)
    \/ \E text \in Texts(MaxLen) : YieldError(text)
    \/ YieldFallback

SpecFormat == Init /\ [][NextFormat]_vars

\* number of newline characters a text ends with
RECURSIVE TrailingNewlines(_)
TrailingNewlines(text) ==
    IF text = <<>> \/ Last(text) # "\n" THEN 0
    ELSE 1 + TrailingNewlines(SubSeq(text, 1, Len(text) - 1))

\* C12. Trailing newline contract: the content of every chunk, when not empty, ends with
\* exactly one newline character.
TrailingNewline ==
    \A i \in 1..Len(chunks) :
        chunks[i].content # <<>> => TrailingNewlines(chunks[i].content) = 1

-----------------------------------------------------------------------------
(* Validation of a new turn *)

\* the step starts a call of the given operation
Starts(op) == ~Running /\ ops' = ops + 1 /\ call'.op = op

\* C13. New-turn validation: run_new_agent called with a message that is not a string
\* or is blank yields exactly one error chunk and stops; the graph cache is not touched
\* (no discovery, no compilation), no graph pass runs, no thread state changes.
NewTurnValidation ==
    [][(Starts("run_new_agent") /\ call'.member_message # "text") =>
          /\ chunks' = <<Chunk("error", "none")>>
          /\ call'.status = "returned" /\ call'.passes = 0
          /\ store' = store /\ cache' = cache /\ hist' = hist /\ ids' = ids]_vars

\* a new turn with a blank message was turned away on a thread that holds state
BlankTurnRefused ==
    /\ call.op = "run_new_agent" /\ call.status = "returned"
    /\ call.member_message = "blank"
    /\ chunks = <<Chunk("error", "none")>>
    /\ \E tid \in ThreadIds : store[tid].has /\ store[tid].next = "human_confirmation"

-----------------------------------------------------------------------------
(* Passes of run_agent *)

\* passes a call of run_agent is to run: the resume when a decision is supplied, then
\* the message when it is not blank
ExpectedPasses(decision, member_message) ==
    (IF decision.approved # "none" THEN 1 ELSE 0) + (IF member_message = "text" THEN 1 ELSE 0)

UserMessage == Message("user", <<>>, 0, "none")

\* C14. Resume protocol of run_agent: a supplied decision is delivered first, as
\* {approved, tool_whitelist_update}, in a pass of its own; a non-blank message is
\* appended to the persisted state and run as a pass after the resume pass has finished;
\* a call that returns has run one pass per decision and one per non-blank message, and
\* with neither it runs no pass and yields no chunk.
ResumeProtocol ==
    /\ [](call.op = "run_agent" =>
            /\ (Running /\ call.pass = "resume") =>
                   call.decision.approved # "none" /\ call.passes = 1
            /\ (Running /\ call.pass = "message") =>
                   /\ call.member_message = "text"
                   /\ call.passes = ExpectedPasses(call.decision, call.member_message)
            /\ call.status = "returned" =>
                   /\ call.passes = ExpectedPasses(call.decision, call.member_message)
                   /\ call.passes = 0 => chunks = <<>>)
    /\ [][/\ (Starts("run_agent") /\ call'.pass = "resume") =>
                call'.resume = call'.decision /\ store' = store
          /\ (call'.op = "run_agent" /\ call'.pass = "message" /\ call.pass # "message") =>
                /\ call.pass = "resume" => call.phase = "after_pass"
                /\ store'[call'.tid].messages = Append(store[call'.tid].messages, UserMessage)
                /\ \A tid \in ThreadIds \ {call'.tid} : store'[tid] = store[tid]]_vars

\* a call with a rejecting decision and a message has run its two passes
TwoPassesRun ==
    /\ call.op = "run_agent" /\ call.status = "returned"
    /\ call.decision.approved = "false" /\ call.member_message = "text"
    /\ call.passes = 2

-----------------------------------------------------------------------------
(* The /assistant route in front of run_agent *)

\* _validate_approval_logic: approved is True and message and message.strip()
ConflictNever(decision, member_message) == FALSE
ApprovalConflict(decision, member_message) ==
    decision.approved = "true" /\ member_message = "text"

\* invoke_agent: the request is refused with 422, or run_agent is called with its fields
invoke_agent(member_message, server_id, member_id, conversation_id, decision, d) ==
    IF ApprovalConflict(decision, member_message)
    THEN /\ ~Running
         /\ ops < MaxOps
         /\ ops' = ops + 1
         /\ UNCHANGED <<discovery, publisher, redis, tasks, available>>
         /\ call' = [IdleCall EXCEPT !.op = "invoke_agent", !.status = "rejected",
                                     !.member_message = member_message, !.decision = decision]
         /\ mem' = NoHC
         /\ chunks' = <<>>
         /\ UNCHANGED <<store, cache, hist, ids>>
    ELSE run_agent(member_message, server_id, member_id, conversation_id, decision, d)

AssistantRequest(triples, kinds, decisions, discoveries) ==
    \E member_message \in kinds, t \in triples, decision \in decisions, d \in discoveries :
        invoke_agent(member_message, t[2], t[1], t[3], decision, d)

NextRoutes ==
    \/ NewAgentCall(OneThread, MessageKinds, Registered)
    \/ AssistantRequest(OneThread, MessageKinds, Decisions \cup {NoDecision}, Registered)
    \/ WhitelistCall(OneThread, Registered)
    \/ AgentNode
    \/ HumanConfirmationNode
    \/ ProgressReportNode
    \/ ContextInjectionNode
    \/ ToolsNode
    \/ RejectActionNode
    \/ FinishPass
    \/ Abandon

SpecRoutes == Init /\ [][NextRoutes]_vars

\* C15. A request with approved = true and a non-blank message is refused at the route
\* and run_agent is not called for it: nothing is discovered, resumed or run; every
\* other combination of decision and message passes the check and reaches run_agent.
BoundaryCheck ==
    /\ [](/\ call.op = "run_agent" =>
                ~(call.decision.approved = "true" /\ call.member_message = "text")
          /\ call.status = "rejected" =>
                call.decision.approved = "true" /\ call.member_message = "text")
    /\ [][call'.status = "rejected" /\ ops' # ops =>
             /\ store' = store /\ cache' = cache /\ hist' = hist /\ ids' = ids
             /\ chunks' = <<>>]_vars

\* a request approving with a message was refused while its thread waits for a decision
ConflictRefused ==
    /\ call.status = "rejected"
    /\ \E tid \in ThreadIds : Pending(store, tid)

-----------------------------------------------------------------------------
(* Bulk whitelist update: what it reports and what it writes *)

ConversationThread(t) == ThreadId(t[1], t[2], t[3])

\* C16. Bulk update never aborts on one thread: once the graph is at hand the call
\* returns a result for any conversations; a conversation whose thread holds no state is
\* reported as failed with "No state found", and the successes and failures add up to
\* the number of conversations.
BulkNeverAborts ==
    [][(Starts("update_tool_whitelist") /\ call'.status # "raised") =>
          /\ call'.status = "returned"
          /\ Cardinality(call'.updated) + Cardinality(call'.failed)
                = Cardinality(call'.conversations)
          /\ \A t \in call'.conversations :
                ~store[ConversationThread(t)].has => Failure(t, "No state found") \in call'.failed]_vars

\* new turns of one member and bulk updates over all conversations, the tool set fixed
Fixed == {Discovered(<<"a", "b">>)}

NextBulk ==
    \/ NewAgentCall(OneThread, {"text"}, Fixed)
    \/ WhitelistCall(Triples, Fixed)
    \/ AgentNode
    \/ HumanConfirmationNode
    \/ ProgressReportNode
    \/ ContextInjectionNode
    \/ ToolsNode
    \/ FinishPass
    \/ Abandon

SpecBulk == Init /\ [][NextBulk]_vars

UpdatedThreads(c) == {ConversationThread(t) : t \in c.updated}

\* C17. Bulk update effect: every thread the call reports as updated holds afterwards
\* its own previous whitelist united with the added tools, minus the removed tools;
\* every other thread (failed or not named) keeps its whitelist, and no message log
\* changes.
BulkUpdateEffect ==
    [][Starts("update_tool_whitelist") =>
          /\ \A tid \in UpdatedThreads(call') :
                store'[tid].tool_whitelist =
                    (store[tid].tool_whitelist \cup call'.added) \ call'.removed
          /\ \A tid \in ThreadIds \ UpdatedThreads(call') :
                store'[tid].tool_whitelist = store[tid].tool_whitelist
          /\ \A tid \in ThreadIds : store'[tid].messages = store[tid].messages]_vars

\* a bulk update that removed a tool from one thread's whitelist and left another's alone
BulkUpdatedOne ==
    /\ call.op = "update_tool_whitelist"
    /\ call.status = "returned"
    /\ call.updated = {<<1, 1, 3>>}
    /\ call.removed = {"a"}
    /\ store[ThreadId(1, 1, 3)].tool_whitelist = {"b"}
    /\ store[ThreadId(1, 21, 3)].tool_whitelist = {"a"}

-----------------------------------------------------------------------------
(* The graph cache *)

\* one member's turns, resumptions and whitelist updates while the discovered tools
\* change, come in another order, or fail to be discovered
NextCache ==
    \/ NewAgentCall(OneThread, {"text"}, Orders)
    \/ AgentCall(OneThread, {"blank"}, Decisions, Orders)
    \/ WhitelistCall(OneThread, Orders)
    \/ AgentNode
    \/ HumanConfirmationNode
    \/ ProgressReportNode
    \/ ContextInjectionNode
    \/ ToolsNode
    \/ RejectActionNode
    \/ FinishPass
    \/ Abandon

SpecCache == Init /\ [][NextCache]_vars

\* a step in which get_graph is called and returns
GraphFetched == ~Running /\ ops' = ops + 1 /\ call'.fetch = "ok"

SameTools(tools, other) ==
    {tools[i] : i \in DOMAIN tools} = {other[i] : i \in DOMAIN other}

\* C18. Recompilation only on fingerprint change: get_graph compiles when no graph is
\* cached, recompiles when the fingerprint of the discovered tools differs from the
\* stored one, and otherwise returns the very same graph; the number of compilations is
\* one plus the number of returns whose fingerprint differs from the return before; and
\* the fingerprint is the same for every order of the same tools.
RecompileOnChange ==
    /\ [](cache.graph = IF hist.fetched THEN 1 + hist.changes ELSE 0)
    /\ [][IF GraphFetched
          THEN LET changed == ~cache.compiled
                                 \/ _compute_tools_hash(call'.all_tools) # cache.tools_hash
               IN /\ changed => /\ cache'.graph = cache.graph + 1
                                /\ cache'.tools = {call'.all_tools[i] : i \in DOMAIN call'.all_tools}
                  /\ ~changed => cache' = cache
                  /\ \A tools \in ToolLists :
                        SameTools(tools, call'.all_tools) =>
                            _compute_tools_hash(tools) = cache'.tools_hash
          ELSE cache' = cache]_vars

\* the tools have changed between two calls and the graph was compiled a second time
Recompiled ==
    /\ cache.graph = 2
    /\ hist.changes = 1
    /\ call.fetch = "ok"
    /\ call.all_tools = <<"a">>

\* a step in which get_graph replaces a cached graph by a newly compiled one
Recompiling == cache.compiled /\ cache'.graph # cache.graph

IsPrefix(messages, longer) ==
    /\ Len(messages) <= Len(longer)
    /\ SubSeq(longer, 1, Len(messages)) = messages

\* C19. Recompilation preserves conversation memory: every compiled graph holds the
\* memory handle made with the cache; a step that recompiles leaves every thread the
\* request is not about as it was and loses no message of any thread; when the request
\* delivers a decision the threads are exactly as before, and a confirmation that was
\* pending under the old graph is taken up under the new one.
MemoryPreserved ==
    /\ [](cache.compiled => cache.checkpointer = memory_saver)
    /\ [][Recompiling =>
            /\ \A tid \in ThreadIds :
                  /\ IsPrefix(store[tid].messages, store'[tid].messages)
                  /\ (tid # call'.tid /\ tid \notin UpdatedThreads(call')) =>
                        store'[tid] = store[tid]
            /\ (call'.op = "run_agent" /\ call'.decision # NoDecision) =>
                  /\ store' = store
                  /\ Pending(store, call'.tid) =>
                        /\ call'.status = "running"
                        /\ call'.pass = "resume"
                        /\ call'.phase = "graph"]_vars

\* a confirmation asked under the first graph is pending under the second, and the call
\* that brought the recompilation is delivering the decision to it
ResumedAfterRecompile ==
    /\ cache.graph = 2
    /\ Running /\ call.op = "run_agent" /\ call.pass = "resume" /\ call.phase = "graph"
    /\ call.last = "none"
    /\ Pending(store, call.tid)
    /\ Len(State.messages) = 3

\* C20. Discovery errors do not take the graph away: when a graph is cached and the
\* discovery of a later request fails with a hard error, the request is served by the
\* cached graph, and the cached graph and its fingerprint are unchanged.
ServedDespiteDiscoveryError ==
    [][(cache.compiled /\ ~Running /\ ops' = ops + 1 /\ call'.fetch = "raised") =>
          /\ cache' = cache
          /\ call'.status # "raised"]_vars

-----------------------------------------------------------------------------
(* ToolDiscoveryService *)

AgentVars == <<store, cache, call, mem, chunks, hist, ids, ops>>

NamesOf(tools) == {tools[i].name : i \in DOMAIN tools}

\* compare_tool_sets lines 252-258: name -> {name, mcpServerName}; a later tool of the
\* same name replaces an earlier one, a tool without the attribute counts as built-in
ToolInfo(name, server_name) == [name |-> name, mcpServerName |-> server_name]

\* the entry of a name made from the first tool of that name
EarlierToolInfo(current_tools, name) ==
    LET i == CHOOSE k \in DOMAIN current_tools :
                 /\ current_tools[k].name = name
                 /\ \A j \in DOMAIN current_tools : current_tools[j].name = name => k <= j
    IN ToolInfo(name, IF current_tools[i]._mcp_server_name = "none"
                      THEN "built-in" ELSE current_tools[i]._mcp_server_name)

current_tool_info(current_tools, name) ==
    LET i == CHOOSE k \in DOMAIN current_tools :
                 /\ current_tools[k].name = name
                 /\ \A j \in DOMAIN current_tools : current_tools[j].name = name => j <= k
    IN ToolInfo(name, IF current_tools[i]._mcp_server_name = "none"
                      THEN "built-in" ELSE current_tools[i]._mcp_server_name)

\* compare_tool_sets: (added_tools, removed_tools), their order left open
compare_tool_sets(inventory, current_tools) ==
    IF ~inventory.set
    THEN [added |-> {current_tool_info(current_tools, name) : name \in NamesOf(current_tools)},
          removed |-> {}]
    ELSE [added |-> {current_tool_info(current_tools, name) :
                         name \in NamesOf(current_tools) \ inventory.names},
          removed |-> {ToolInfo(name, "unknown") :
                         name \in inventory.names \ NamesOf(current_tools)}]

\* get_tool_changes line 313-314: the snapshot after the call; and one that keeps a
\* snapshot it has when no tool is current
SnapshotKeptWhenEmpty(inventory, current_tools) ==
    IF current_tools = <<>> /\ inventory.set THEN inventory
    ELSE [set |-> TRUE, names |-> NamesOf(current_tools)]

UpdatedInventory(inventory, current_tools) ==
    [set |-> TRUE, names |-> NamesOf(current_tools)]

CompareToolSets(current_tools) ==
    LET r == compare_tool_sets(discovery._cached_tool_inventory, current_tools) IN
    /\ discovery' = [discovery EXCEPT
                        !.last = [NoDiscoveryCall EXCEPT !.op = "compare_tool_sets",
                                                         !.tick = ~discovery.last.tick,
                                                         !.current_tools = current_tools,
                                                         !.added = r.added,
                                                         !.removed = r.removed]]
    /\ UNCHANGED <<AgentVars, publisher, redis, tasks, available>>

get_tool_changes(current_tools) ==
    LET r == compare_tool_sets(discovery._cached_tool_inventory, current_tools) IN
    /\ discovery' = [discovery EXCEPT
                        !._cached_tool_inventory = UpdatedInventory(@, current_tools),
                        !.last = [NoDiscoveryCall EXCEPT !.op = "get_tool_changes",
                                                         !.tick = ~discovery.last.tick,
                                                         !.current_tools = current_tools,
                                                         !.added = r.added,
                                                         !.removed = r.removed]]
    /\ UNCHANGED <<AgentVars, publisher, redis, tasks, available>>

NextChanges ==
    \/ \E current_tools \in ChangeLists : CompareToolSets(current_tools)
    \/ \E current_tools \in ChangeLists : get_tool_changes(current_tools)

SpecChanges == Init /\ [][NextChanges]_vars

\* a step that is a change detection (compare_tool_sets, alone or inside get_tool_changes)
Detects ==
    /\ discovery'.last.tick # discovery.last.tick
    /\ discovery'.last.op \in {"compare_tool_sets", "get_tool_changes"}

FirstDetection ==
    /\ Detects
    /\ ~discovery._cached_tool_inventory.set
    /\ discovery'.last.current_tools # <<>>

OwnTag(tool) == IF tool._mcp_server_name = "none" THEN "built-in" ELSE tool._mcp_server_name

SecondChange ==
    /\ discovery'.last.tick # discovery.last.tick
    /\ discovery'.last.op = "get_tool_changes"
    /\ discovery.last.op = "get_tool_changes"

\* C22. Snapshot replacement: get_tool_changes(T) leaves the names of T as the
\* snapshot; a get_tool_changes(T2) directly after a get_tool_changes(T1) reports as
\* added the names in T2 and not in T1, as removed the names in T1 and not in T2, these
\* with source tag "unknown"; and a get_tool_changes(T2) repeated directly reports nothing.
SnapshotReplaced ==
    /\ [](discovery.last.op = "get_tool_changes" =>
            /\ discovery._cached_tool_inventory.set
            /\ discovery._cached_tool_inventory.names = NamesOf(discovery.last.current_tools))
    /\ [][SecondChange =>
            LET T1 == discovery.last.current_tools
                T2 == discovery'.last.current_tools
            IN
            /\ {info.name : info \in discovery'.last.added} = NamesOf(T2) \ NamesOf(T1)
            /\ discovery'.last.removed =
                  {ToolInfo(name, "unknown") : name \in NamesOf(T1) \ NamesOf(T2)}
            /\ T2 = T1 => discovery'.last.added = {} /\ discovery'.last.removed = {}]_vars

\* a get_tool_changes that found one name new and one name of the snapshot gone
ChangedSnapshot ==
    /\ discovery.last.op = "get_tool_changes"
    /\ discovery.last.current_tools = <<Tool(<<"s", "-", "t">>, "s")>>
    /\ discovery.last.added = {ToolInfo(<<"s", "-", "t">>, "s")}
    /\ discovery.last.removed = {ToolInfo(<<"t">>, "unknown")}
    /\ discovery._cached_tool_inventory.names = {<<"s", "-", "t">>}

-----------------------------------------------------------------------------
(* ToolDiscoveryService.discover_tools *)

StartsWith(name, prefix) ==
    /\ Len(prefix) <= Len(name)
    /\ SubSeq(name, 1, Len(prefix)) = prefix

\* _discover_local_tools: the tools of the tools directory marked built-in, or none when
\* loading fails
_discover_local_tools(names, loads) ==
    IF loads THEN [i \in DOMAIN names |-> Tool(names[i], "built-in")] ELSE <<>>

\* a check of the prefix that takes every name as the first server's
AnyOwner(tool_name) == Servers

\* lines 144-149: the configured servers whose name and "-" the tool name starts with
Owners(tool_name) == {server_name \in Servers : StartsWith(tool_name, server_name \o <<"-">>)}

Unchanged(svc, attempted) ==
    [tools |-> <<>>, client |-> svc._mcp_client, failed |-> svc._mcp_connection_failed,
     attempted |-> attempted]

\* _discover_mcp_tools_with_fallback: the remote tools, the client and the failure
\* memory it leaves, and whether the remote source was asked
_discover_mcp_tools_with_fallback(svc, enabled, creatable, remote) ==
    IF ~enabled THEN Unchanged(svc, FALSE)
    ELSE IF svc._mcp_connection_failed THEN Unchanged(svc, FALSE)
    ELSE IF ~svc._mcp_client /\ ~creatable THEN Unchanged(svc, FALSE)
    ELSE IF ~remote.ok \/ \E i \in DOMAIN remote.names : Owners(remote.names[i]) = {}
    THEN \* except Exception: get_tools failed, or a name follows no server's prefix
         [tools |-> <<>>, client |-> FALSE, failed |-> TRUE, attempted |-> TRUE]
    ELSE [tools |-> [i \in DOMAIN remote.names |->
                        Tool(remote.names[i], TagOf(CHOOSE o \in Owners(remote.names[i]) : TRUE))],
          client |-> TRUE, failed |-> FALSE, attempted |-> TRUE]

\* a validation that looks at the built-in tools only
DuplicatedAmongBuiltIn(tools) ==
    \E i, j \in DOMAIN tools :
        /\ i # j /\ tools[i].name = tools[j].name
        /\ tools[i]._mcp_server_name = "built-in" /\ tools[j]._mcp_server_name = "built-in"

\* _validate_tool_names raises: some name is counted more than once
Duplicated(tools) ==
    \E i, j \in DOMAIN tools : i # j /\ tools[i].name = tools[j].name

discover_tools(names, loads, enabled, creatable, remote) ==
    LET local_tools == _discover_local_tools(names, loads)
        r == _discover_mcp_tools_with_fallback(discovery, enabled, creatable, remote)
        all_tools == local_tools \o r.tools
    IN
    /\ discovery' = [discovery EXCEPT
                        !._mcp_client = r.client,
                        !._mcp_connection_failed = r.failed,
                        !.last = [NoDiscoveryCall EXCEPT
                                     !.op = "discover_tools",
                                     !.tick = ~discovery.last.tick,
                                     !.local = local_tools,
                                     !.gathered = all_tools,
                                     !.raised = Duplicated(all_tools),
                                     !.tools = IF Duplicated(all_tools) THEN <<>> ELSE all_tools,
                                     !.remote = IF r.attempted THEN remote ELSE RemoteError,
                                     !.attempted = r.attempted,
                                     !.enabled = enabled,
                                     !.creatable = creatable]]
    /\ UNCHANGED <<AgentVars, publisher, redis, tasks, available>>

\* a reset that forgets the client and keeps the failure flag
ResetClientOnly(svc) == [svc EXCEPT !._mcp_client = FALSE]

Reset(svc) == [svc EXCEPT !._mcp_connection_failed = FALSE, !._mcp_client = FALSE]

reset_mcp_connection ==
    /\ discovery' = [Reset(discovery) EXCEPT
                        !.last = [NoDiscoveryCall EXCEPT !.op = "reset_mcp_connection",
                                                         !.tick = ~discovery.last.tick]]
    /\ UNCHANGED <<AgentVars, publisher, redis, tasks, available>>

NextDiscovery ==
    \/ \E names \in LocalLists, loads \in BOOLEAN, enabled \in BOOLEAN,
          creatable \in BOOLEAN, remote \in Remotes :
          discover_tools(names, loads, enabled, creatable, remote)
    \/ reset_mcp_connection

SpecDiscovery == Init /\ [][NextDiscovery]_vars

\* a step that is a call of discover_tools
Discovers ==
    /\ discovery'.last.tick # discovery.last.tick
    /\ discovery'.last.op = "discover_tools"

Repeats(tools) == Cardinality(NamesOf(tools)) < Len(tools)

Malformed(last) ==
    /\ last.attempted /\ last.remote.ok
    /\ \E i \in DOMAIN last.remote.names :
          \A server_name \in Servers :
              ~StartsWith(last.remote.names[i], server_name \o <<"-">>)

\* C24. Remote naming: when the remote source returns a tool whose name does not
\* start with a configured server name followed by "-", discover_tools raises.
MalformedNameRaises ==
    [][(Discovers /\ Malformed(discovery'.last)) => discovery'.last.raised]_vars

RemoteFailed(last) == last.attempted /\ (~last.remote.ok \/ Malformed(last))

-----------------------------------------------------------------------------
(* ToolPublisherService and the Redis client under it.  Metrics and the logging of
   connection changes are left out. *)

\* RedisClient.execute_with_retry around rpush: how often the push reached the list and
\* whether a result came back. An attempt is refused (connection error, not pushed),
\* acknowledged, or times out after the server has pushed; a timed-out attempt is
\* repeated while attempts are left (two pushes stand for any number from two to
\* max_attempts).
Acked == [pushes |-> 1, ok |-> TRUE]
Refused == [pushes |-> 0, ok |-> FALSE]
LostReply == [pushes |-> 1, ok |-> FALSE]
AckedOnRetry == [pushes |-> 2, ok |-> TRUE]
SendOutcomes == {Acked, Refused, LostReply, AckedOnRetry}

rpush(list, message, outcome) ==
    list \o [i \in 1..outcome.pushes |-> message]

\* _publish_message: the client is obtained, the message pushed; any error gives False
Sendable(outcome) == Len(publisher.list) + outcome.pushes <= MaxPushes

Caller(t) == publisher.callers[t]

\* no other caller is inside a call
Alone(t) == \A u \in Callers \ {t} : Caller(u).pc = "idle"

\* the end of a call that has reached _process_queued_messages
Return(c) ==
    [c EXCEPT !.pc = "idle", !.message = 0,
              !.result = IF c.op = "publish_tool_changes" THEN "true" ELSE "none"]

\* a publish that makes and sends a message though nothing has changed
PublishesAlways(added_tools, removed_tools) == FALSE

\* publish_tool_changes line 141: if not added_tools and not removed_tools
NoChanges(added_tools, removed_tools) == added_tools = {} /\ removed_tools = {}

ChangeSets == {{}, {ToolInfo(<<"t">>, "built-in")}}

\* publish_tool_changes up to the outcome of the first send
publish_tool_changes(t, added_tools, removed_tools, outcome) ==
    LET c == [IdleCaller EXCEPT !.op = "publish_tool_changes",
                                !.changed = added_tools # {} \/ removed_tools # {}] IN
    /\ Caller(t).pc = "idle"
    /\ IF NoChanges(added_tools, removed_tools)
       THEN publisher' = [publisher EXCEPT !.callers[t] = [c EXCEPT !.result = "true"]]
       ELSE /\ publisher.created < MaxMessages
            /\ Sendable(outcome)
            /\ publisher' = [publisher EXCEPT
                  !.created = @ + 1,
                  !._redis_client = TRUE,
                  !.failed = IF Alone(t) /\ ~outcome.ok THEN @ ELSE 0,
                  !.list = rpush(@, publisher.created + 1, outcome),
                  !.callers[t] = [c EXCEPT !.message = publisher.created + 1,
                                           !.pc = IF outcome.ok THEN "process" ELSE "queue"]]
    /\ UNCHANGED <<AgentVars, discovery, redis, tasks, available>>

\* a buffer that refuses the new message when it is full
QueueKeepsOldest(queue, message) ==
    IF Len(queue) >= _max_queue_size THEN queue ELSE Append(queue, message)

\* _queue_message lines 257-268: the buffer after the message is queued
Queued(queue, message) ==
    IF Len(queue) >= _max_queue_size THEN Append(Tail(queue), message) ELSE Append(queue, message)

\* _queue_message, under the lock; publish_tool_changes then returns False
_queue_message(t) ==
    /\ Caller(t).pc = "queue"
    /\ publisher.lock = 0
    /\ publisher' = [publisher EXCEPT
          !._message_queue = Queued(@, Caller(t).message),
          !.dropped = IF Len(publisher._message_queue) >= _max_queue_size
                      THEN @ \cup {Head(publisher._message_queue)} ELSE @,
          !.failed = IF Alone(t) THEN @ + 1 ELSE 0,
          !.callers[t] = [@ EXCEPT !.pc = "idle", !.message = 0, !.result = "false"]]
    /\ UNCHANGED <<AgentVars, discovery, redis, tasks, available>>

\* _process_queued_messages line 283: nothing buffered, return; else go for the lock
_process_queued_messages(t) ==
    /\ Caller(t).pc = "process"
    /\ publisher' = [publisher EXCEPT
          !.callers[t] = IF publisher._message_queue = <<>>
                         THEN Return(@)
                         ELSE [@ EXCEPT !.pc = "acquire"]]
    /\ UNCHANGED <<AgentVars, discovery, redis, tasks, available>>

\* with self._queue_lock
Acquire(t) ==
    /\ Caller(t).pc = "acquire"
    /\ publisher.lock = 0
    /\ publisher' = [publisher EXCEPT !.lock = t, !.callers[t] = [@ EXCEPT !.pc = "flush"]]
    /\ UNCHANGED <<AgentVars, discovery, redis, tasks, available>>

\* a flush that puts the failed message behind the messages that waited behind it
RequeuedLast(queue) == Append(Tail(queue), Head(queue))

\* lines 301-307: the buffer after the send of its head has failed
Requeued(queue) == queue

\* one round of the loop of _process_queued_messages, or its end
Flush(t, outcome) ==
    /\ Caller(t).pc = "flush"
    /\ IF publisher._message_queue = <<>>
       THEN /\ publisher' = [publisher EXCEPT !.lock = 0,
                                              !.callers[t] = Return(@)]
       ELSE /\ Sendable(outcome)
            /\ publisher' = [publisher EXCEPT
                  !.list = rpush(@, Head(publisher._message_queue), outcome),
                  !._message_queue = IF outcome.ok THEN Tail(@) ELSE Requeued(@),
                  !.lock = IF outcome.ok THEN @ ELSE 0,
                  !.callers[t] = IF outcome.ok THEN @
                                 ELSE Return(@)]
    /\ UNCHANGED <<AgentVars, discovery, redis, tasks, available>>

\* retry_queued_messages up to the call of _process_queued_messages
retry_queued_messages(t) ==
    LET c == [IdleCaller EXCEPT !.op = "retry_queued_messages"] IN
    /\ Caller(t).pc = "idle"
    /\ publisher' = [publisher EXCEPT
          !.failed = 0,
          !.callers[t] = IF publisher._message_queue = <<>> THEN c
                         ELSE [c EXCEPT !.pc = "process"]]
    /\ UNCHANGED <<AgentVars, discovery, redis, tasks, available>>

clear_queue(t) ==
    /\ Caller(t).pc = "idle"
    /\ publisher.lock = 0
    /\ publisher' = [publisher EXCEPT
          !._message_queue = <<>>,
          !.failed = 0,
          !.cleared = @ \cup {publisher._message_queue[i] : i \in DOMAIN publisher._message_queue},
          !.callers[t] = [IdleCaller EXCEPT !.op = "clear_queue"]]
    /\ UNCHANGED <<AgentVars, discovery, redis, tasks, available>>

NextPublisher ==
    \/ \E t \in Callers, added_tools \in ChangeSets, removed_tools \in {{}} :
          \E outcome \in IF NoChanges(added_tools, removed_tools)
                          THEN {Refused} ELSE SendOutcomes :
              publish_tool_changes(t, added_tools, removed_tools, outcome)
    \/ \E t \in Callers : _queue_message(t)
    \/ \E t \in Callers : _process_queued_messages(t)
    \/ \E t \in Callers : Acquire(t)
    \/ \E t \in Callers :
          \E outcome \in IF publisher._message_queue = <<>> THEN {Refused} ELSE SendOutcomes :
              Flush(t, outcome)
    \/ \E t \in Callers : retry_queued_messages(t)
    \/ \E t \in Callers : clear_queue(t)

SpecPublisher == Init /\ [][NextPublisher]_vars

-----------------------------------------------------------------------------
(* Claims about ToolPublisherService *)

\* caller t makes a whole call of publish_tool_changes with two empty lists
PublishesNothing(t) ==
    /\ Caller(t).pc = "idle"
    /\ publisher'.callers[t] # Caller(t)
    /\ publisher'.callers[t].op = "publish_tool_changes"
    /\ ~publisher'.callers[t].changed

\* C26: publish_tool_changes with both lists empty returns success at once and changes
\* nothing: the client is not obtained, no message is created, the list, the retry buffer
\* and its lock stay as they are and no flush is started.
NoOpPublish ==
    [][\A t \in Callers :
          PublishesNothing(t) =>
              /\ publisher'.callers[t].pc = "idle"
              /\ publisher'.callers[t].result = "true"
              /\ publisher' = [publisher EXCEPT !.callers[t] = publisher'.callers[t]]]_vars

\* a publish of nothing has returned success and no client was ever obtained
NoOpReturned ==
    \E t \in Callers :
        /\ Caller(t) = [IdleCaller EXCEPT !.op = "publish_tool_changes", !.result = "true"]
        /\ ~publisher._redis_client

\* the newest n messages in the order of their creation
Newest(n) == [i \in 1..n |-> publisher.created - n + i]

\* C27: the retry buffer never holds more than _max_queue_size messages, whatever the
\* callers do and however they interleave; after _max_queue_size + 1 failed publishes in
\* a row it holds the _max_queue_size newest messages in the order of their creation
\* and the one before them has been dropped.
BoundedBuffer ==
    /\ Len(publisher._message_queue) <= _max_queue_size
    /\ publisher.failed = _max_queue_size + 1 =>
          /\ publisher._message_queue = Newest(_max_queue_size)
          /\ publisher.created - _max_queue_size \in publisher.dropped

\* _max_queue_size + 1 publishes in a row have failed and the oldest message is gone
OldestDropped ==
    /\ publisher.failed = _max_queue_size + 1
    /\ Len(publisher._message_queue) = _max_queue_size
    /\ 1 \in publisher.dropped
    /\ \A i \in DOMAIN publisher._message_queue : publisher._message_queue[i] # 1

\* caller t, holding the lock, makes one round of the flush on a buffer that is not empty
Flushes(t) ==
    /\ Caller(t).pc = "flush"
    /\ publisher._message_queue # <<>>
    /\ publisher' # publisher
    /\ \A u \in Callers \ {t} : publisher'.callers[u] = Caller(u)

\* the round has stopped the flush: the lock is free and the call has returned
Stops(t) == publisher'.lock = 0 /\ publisher'.callers[t].pc = "idle"

\* the round goes on to the next message
GoesOn(t) == publisher'.lock = t /\ publisher'.callers[t].pc = "flush"

ListOrdered ==
    \A i, j \in DOMAIN publisher.list : i < j => publisher.list[i] <= publisher.list[j]

\* no message is pushed while an older one waits in the buffer
NoOvertaking ==
    \A m \in 1..MaxMessages :
        (Len(publisher'.list) > Len(publisher.list) /\ publisher'.list[Len(publisher'.list)] = m) =>
            \A i \in DOMAIN publisher._message_queue : publisher._message_queue[i] >= m

\* C29: the messages are on the list in the order of their creation, and a message is
\* never pushed while a message created before it still waits in the retry buffer.
NeverReorders == []ListOrdered /\ [][NoOvertaking]_vars

\* in how many places message m is: entries of the list, entries of the buffer, the
\* dropped ones, the cleared ones
Count(seq, m) == Cardinality({i \in DOMAIN seq : seq[i] = m})

Places(m) ==
    Count(publisher.list, m) + Count(publisher._message_queue, m)
        + (IF m \in publisher.dropped THEN 1 ELSE 0)
        + (IF m \in publisher.cleared THEN 1 ELSE 0)

\* the messages no caller is still holding between its creation and its queueing
Settled == (1..publisher.created) \ {Caller(t).message : t \in Callers}

\* a publish whose send has failed queues its message and returns false
FailedSendQueued ==
    \A t \in Callers :
        (Caller(t).pc = "queue" /\ publisher'.callers[t].pc = "idle") =>
            /\ publisher'.callers[t].result = "false"
            /\ publisher'._message_queue # <<>>
            /\ publisher'._message_queue[Len(publisher'._message_queue)] = Caller(t).message

\* C30: every message created is in exactly one place: once on the list, once in the
\* retry buffer, dropped on overflow, or removed by clear_queue; a publish whose send
\* fails returns false and leaves its message at the tail of the buffer.
OnePlaceEach == [](\A m \in Settled : Places(m) = 1) /\ [][FailedSendQueued]_vars

-----------------------------------------------------------------------------
(* Further claims about ToolDiscoveryService *)

\* C32. When the remote source gives a tool whose name starts with no configured server
\* prefix, the remote step gives no remote tool, drops the client and sets the failure
\* memory: the discovery gathers the built-in tools only (and returns them when their
\* names are distinct), and the discoveries after it do not ask the remote source as
\* long as the memory is set, which only reset_mcp_connection ends.
MalformedFallsBack ==
    [][/\ (Discovers /\ Malformed(discovery'.last)) =>
              /\ discovery'.last.gathered = discovery'.last.local
              /\ ~Repeats(discovery'.last.local) =>
                    ~discovery'.last.raised /\ discovery'.last.tools = discovery'.last.local
              /\ discovery'._mcp_connection_failed
              /\ ~discovery'._mcp_client
       /\ (Discovers /\ discovery.last.op = "discover_tools" /\ Malformed(discovery.last)) =>
              /\ ~discovery'.last.attempted
              /\ discovery'.last.gathered = discovery'.last.local
              /\ discovery'._mcp_connection_failed
       /\ (discovery.last.op = "discover_tools" /\ Malformed(discovery.last)
              /\ ~discovery'._mcp_connection_failed) =>
              discovery'.last.op = "reset_mcp_connection"]_vars

\* the remote source gave a name without a server prefix and the discovery has returned
\* the built-in tools
MalformedFellBack ==
    /\ discovery.last.op = "discover_tools"
    /\ Malformed(discovery.last)
    /\ discovery._mcp_connection_failed
    /\ ~discovery.last.raised
    /\ discovery.last.tools = discovery.last.local
    /\ discovery.last.tools # <<>>

-----------------------------------------------------------------------------
(* Further claims about the agent runner *)

\* C33. A request to /assistant with a decision and no message field passes the check of
\* the route and, its tools discovered, resumes the suspended graph with that decision
\* in one pass.
DecisionWithoutMessage ==
    [][(/\ Starts("run_agent")
        /\ call'.member_message = "absent"
        /\ call'.decision.approved # "none"
        /\ call'.fetch = "ok") =>
           /\ call'.status = "running"
           /\ call'.pass = "resume"
           /\ call'.resume = call'.decision]_vars

\* C36. The "No response generated" chunk is yielded only for a pass that has yielded
\* nothing: a pass that has yielded a progress, interrupt or update chunk does not end
\* with the fallback chunk.
FallbackOnlyWhenSilent ==
    [][(PassOver /\ Len(chunks) > call.base) =>
          chunks' # Append(chunks, Chunk("fallback", "none"))]_vars

\* the conversations of the call whose thread no other conversation of the call names
OwnThread(c) ==
    {t \in c.conversations :
        \A u \in c.conversations : ConversationThread(u) = ConversationThread(t) => u = t}

\* C39. In the result of update_tool_whitelist the previousToolCount of an updated
\* conversation is the size of its thread's whitelist before the update and newToolCount
\* its size after, so that their difference is the number of names added minus the
\* number of names removed.
CountsBeforeAndAfter ==
    [][Starts("update_tool_whitelist") =>
          \A r \in call'.counts :
              r.conversation \in OwnThread(call') =>
                  LET before == store[ConversationThread(r.conversation)].tool_whitelist
                      after == store'[ConversationThread(r.conversation)].tool_whitelist
                  IN /\ r.previousToolCount = Cardinality(before)
                     /\ r.newToolCount = Cardinality(after)
                     /\ r.newToolCount - r.previousToolCount =
                           Cardinality(after \ before) - Cardinality(before \ after)]_vars

-----------------------------------------------------------------------------
(* RedisClient.connect and RedisClient.execute_with_retry *)

ServiceVars == <<discovery, publisher, tasks, available>>

\* how an attempt ends: the ping or the operation succeeds, or raises a connection
\* error, a timeout error or another exception
AttemptOutcomes == {"ok", "ConnectionError", "TimeoutError", "Exception"}

\* a retry after every exception
RetryableAlways(outcome) == outcome # "ok"

\* except (ConnectionError, TimeoutError)
Retryable(outcome) == outcome \in {"ConnectionError", "TimeoutError"}

Min(a, b) == IF a <= b THEN a ELSE b

\* a delay that doubles without limit
DelayUncapped(attempt, base_delay, max_delay) == base_delay * 2 ^ attempt

\* delay = min(base_delay * (2 ** attempt), max_delay)
Delay(attempt, base_delay, max_delay) == Min(base_delay * 2 ^ attempt, max_delay)

\* RedisClient(): a client with the configuration of the environment
RedisClient(config) ==
    /\ redis.call.pc = "idle"
    /\ redis' = [NoRedis EXCEPT !.config = config]
    /\ UNCHANGED <<AgentVars, ServiceVars>>

\* execute_with_retry lines 212-224, after a connection or timeout error in attempt
\* number r.call.attempt: the flag is cleared; sleep and go round, or give up
Retried(r, outcome) ==
    LET c == [r.call EXCEPT !.outcomes = Append(@, outcome)] IN
    IF r.call.attempt < r.config.max_attempts - 1
    THEN [r EXCEPT !._is_connected = FALSE,
                   !.call = [c EXCEPT !.pc = "attempt", !.attempt = @ + 1,
                                      !.delays = Append(@, Delay(r.call.attempt,
                                                                 r.config.base_delay,
                                                                 r.config.max_delay)),
                                      !.sleeps = @ + 1]]
    ELSE [r EXCEPT !._is_connected = FALSE,
                   !.call = [c EXCEPT !.pc = "idle", !.attempt = @ + 1, !.result = "None"]]

\* the end of connect: the flag is set or cleared; the caller gets True or False, and
\* execute_with_retry goes on to the operation or raises ConnectionError
Connected(r, ok) ==
    LET q == [r EXCEPT !._is_connected = ok] IN
    IF ~r.call.nested
    THEN [q EXCEPT !.call = [@ EXCEPT !.pc = "idle", !.result = IF ok THEN "True" ELSE "False"]]
    ELSE IF ok THEN [q EXCEPT !.call = [@ EXCEPT !.pc = "operate"]]
    ELSE Retried(q, "ConnectionError")

\* the loop of connect is entered
Connecting(r, nested) ==
    [r EXCEPT !.call = [@ EXCEPT !.pc = "connect", !.nested = nested, !.conn_attempt = 0,
                                 !.conn_outcomes = <<>>, !.conn_delays = <<>>]]

\* connect() called from outside, up to its loop: a connection that answers the ping is
\* kept
connect(ping) ==
    LET r == [redis EXCEPT !.call = [IdleRedisCall EXCEPT !.op = "connect"]] IN
    /\ redis.call.pc = "idle"
    /\ redis' = IF redis._is_connected /\ redis._client
                THEN IF ping = "ok"
                     THEN [r EXCEPT !.call = [@ EXCEPT !.result = "True"]]
                     ELSE Connecting([r EXCEPT !._is_connected = FALSE], FALSE)
                ELSE Connecting(r, FALSE)
    /\ UNCHANGED <<AgentVars, ServiceVars>>

\* one round of the loop of connect: a client is made and pinged
ConnectAttempt(outcome) ==
    LET c == [redis.call EXCEPT !.conn_outcomes = Append(@, outcome)] IN
    /\ redis.call.pc = "connect"
    /\ redis' =
         IF outcome = "ok"
         THEN Connected([redis EXCEPT !._client = TRUE, !.call = c], TRUE)
         ELSE IF Retryable(outcome)
         THEN IF redis.call.conn_attempt < redis.config.max_attempts - 1
              THEN [redis EXCEPT
                      !._client = TRUE,
                      !.call = [c EXCEPT !.conn_attempt = @ + 1,
                                         !.conn_delays = Append(@, Delay(redis.call.conn_attempt,
                                                                         redis.config.base_delay,
                                                                         redis.config.max_delay)),
                                         !.sleeps = @ + 1]]
              ELSE Connected([redis EXCEPT !._client = TRUE, !.call = c], FALSE)
         ELSE Connected([redis EXCEPT !.call = c], FALSE)
    /\ UNCHANGED <<AgentVars, ServiceVars>>

execute_with_retry ==
    /\ redis.call.pc = "idle"
    /\ redis' = [redis EXCEPT !.call = [IdleRedisCall EXCEPT !.op = "execute_with_retry",
                                                              !.pc = "attempt"]]
    /\ UNCHANGED <<AgentVars, ServiceVars>>

\* lines 198-202: is_connected(), and connect() when it says no
ExecuteAttempt(ping) ==
    /\ redis.call.pc = "attempt"
    /\ redis' = IF redis._is_connected /\ redis._client
                THEN IF ping = "ok"
                     THEN [redis EXCEPT !.call = [@ EXCEPT !.pc = "operate"]]
                     ELSE Connecting([redis EXCEPT !._is_connected = FALSE], TRUE)
                ELSE Connecting(redis, TRUE)
    /\ UNCHANGED <<AgentVars, ServiceVars>>

\* lines 205-210 and the handlers: the operation is called
Operate(outcome) ==
    LET r == [redis EXCEPT !.call = [@ EXCEPT !.operations = @ + 1]] IN
    /\ redis.call.pc = "operate"
    /\ redis' =
         IF outcome = "ok"
         THEN [r EXCEPT !.call = [@ EXCEPT !.pc = "idle", !.result = "value",
                                           !.outcomes = Append(@, outcome)]]
         ELSE IF Retryable(outcome) THEN Retried(r, outcome)
         ELSE [r EXCEPT !.call = [@ EXCEPT !.pc = "idle", !.result = "None",
                                           !.outcomes = Append(@, outcome)]]
    /\ UNCHANGED <<AgentVars, ServiceVars>>

NextRedis ==
    \/ \E config \in RetryConfigs : RedisClient(config)
    \/ \E ping \in {"ok", "RedisError"} : connect(ping)
    \/ \E outcome \in AttemptOutcomes : ConnectAttempt(outcome)
    \/ execute_with_retry
    \/ \E ping \in {"ok", "RedisError"} : ExecuteAttempt(ping)
    \/ \E outcome \in AttemptOutcomes : Operate(outcome)

SpecRedis == Init /\ [][NextRedis]_vars

\* the thread that called the client runs until the call returns
SpecRedisLive == SpecRedis /\ WF_vars(NextRedis)

-----------------------------------------------------------------------------
(* Claims about RedisClient *)

\* the delay the backoff rule gives after failed attempt number i, counted from 0
BackoffDelay(i) ==
    IF redis.config.base_delay * 2 ^ i > redis.config.max_delay
    THEN redis.config.max_delay
    ELSE redis.config.base_delay * 2 ^ i

ConnectionOrTimeout(outcome) == outcome \in {"ConnectionError", "TimeoutError"}

\* C35: connect makes at most max_attempts connection attempts; after failed attempt
\* number i, counted from 0, that is not the last it sleeps min(base_delay * 2^i,
\* max_delay), so the delays never decrease and never exceed max_delay; it returns
\* true with the connected flag set on the first successful ping, and false with the
\* flag cleared when the attempts have failed
ConnectBackoff ==
    LET c == redis.call
        attempts == c.conn_outcomes
        slept == c.conn_delays IN
    /\ Len(attempts) <= redis.config.max_attempts
    /\ Len(slept) <= redis.config.max_attempts - 1
    /\ \A i \in DOMAIN slept :
         /\ ConnectionOrTimeout(attempts[i])
         /\ slept[i] = BackoffDelay(i - 1)
         /\ slept[i] <= redis.config.max_delay
         /\ i > 1 => slept[i - 1] <= slept[i]
    /\ \A i \in DOMAIN attempts : i < Len(attempts) => ConnectionOrTimeout(attempts[i])
    /\ (c.op = "connect" /\ c.pc = "idle") =>
         /\ c.result \in {"True", "False"}
         /\ c.result = "True" =>
              /\ redis._is_connected
              /\ attempts # <<>> => attempts[Len(attempts)] = "ok"
              /\ Len(slept) = Len(attempts) - (IF attempts = <<>> THEN 0 ELSE 1)
         /\ c.result = "False" =>
              /\ ~redis._is_connected
              /\ attempts # <<>> /\ attempts[Len(attempts)] # "ok"
              /\ \/ attempts[Len(attempts)] = "Exception"
                 \/ Len(attempts) = redis.config.max_attempts
              /\ Len(slept) = Len(attempts) - 1

\* connect gave up after three attempts; its second delay was cut down to max_delay
ConnectGaveUp ==
    /\ redis.call.op = "connect" /\ redis.call.pc = "idle"
    /\ redis.call.result = "False"
    /\ Len(redis.call.conn_outcomes) = redis.config.max_attempts
    /\ Len(redis.call.conn_delays) >= 2
    /\ redis.call.conn_delays[1] < redis.call.conn_delays[2]
    /\ redis.call.conn_delays[2] = redis.config.max_delay
    /\ redis.config.base_delay * 2 > redis.config.max_delay

\* what the loop of execute_with_retry does in a call: at most max_attempts attempts
\* and as many calls of the operation, another attempt only after a connection or
\* timeout error, the result of the first success or None, a sleep of its own only
\* between two attempts
BoundedRetry ==
    LET c == redis.call
        attempts == c.outcomes IN
    c.op = "execute_with_retry" =>
      /\ c.operations <= redis.config.max_attempts
      /\ c.operations <= Len(attempts) + (IF c.pc = "idle" THEN 0 ELSE 1)
      /\ Len(attempts) <= redis.config.max_attempts
      /\ \A i \in DOMAIN attempts : i < Len(attempts) => ConnectionOrTimeout(attempts[i])
      /\ Len(c.delays) <= redis.config.max_attempts - 1
      /\ \A i \in DOMAIN c.delays : c.delays[i] = BackoffDelay(i - 1)
      /\ c.pc # "idle" => Len(c.delays) = Len(attempts)
      /\ c.pc = "idle" =>
           /\ attempts # <<>>
           /\ Len(c.delays) = Len(attempts) - 1
           /\ c.result \in {"value", "None"}
           /\ c.result = "value" <=> attempts[Len(attempts)] = "ok"
           /\ c.result = "None" =>
                \/ attempts[Len(attempts)] = "Exception"
                \/ Len(attempts) = redis.config.max_attempts

\* C34 as stated: execute_with_retry always terminates, invokes the operation at most
\* max_attempts times, retries only after a connection or timeout error, stops at once
\* on any other exception, returns the result of the first success and None when every
\* attempt failed, and sleeps at most max_attempts - 1 times
RetrySleepsBetweenAttempts ==
    /\ [](BoundedRetry /\ (redis.call.op = "execute_with_retry" =>
                             redis.call.sleeps <= redis.config.max_attempts - 1))
    /\ (redis.call.pc # "idle") ~> (redis.call.pc = "idle")

\* C34: execute_with_retry always terminates, invokes the operation at most
\* max_attempts times, retries only after a connection or timeout error, stops at once
\* on any other exception, returns the result of the first success and None when every
\* attempt failed; its own loop sleeps only between attempts, at most max_attempts - 1
\* times, and each attempt that has to connect adds at most max_attempts - 1 sleeps
RetryBounded ==
    /\ [](BoundedRetry /\ (redis.call.op = "execute_with_retry" =>
                             /\ redis.call.sleeps <=
                                  Len(redis.call.delays)
                                  + (Len(redis.call.delays) + 1) * (redis.config.max_attempts - 1)
                             /\ redis.call.sleeps <=
                                  (redis.config.max_attempts + 1) * (redis.config.max_attempts - 1)))
    /\ (redis.call.pc # "idle") ~> (redis.call.pc = "idle")

\* a call that retried after a timeout of the operation, had to connect again and then
\* got the result
RetriedAndSucceeded ==
    /\ redis.call.op = "execute_with_retry" /\ redis.call.pc = "idle"
    /\ redis.call.result = "value"
    /\ Len(redis.call.outcomes) >= 2
    /\ redis.call.outcomes[1] = "TimeoutError"
    /\ redis.call.conn_outcomes # <<>>
    /\ redis.call.sleeps > Len(redis.call.delays)

-----------------------------------------------------------------------------
(* GraphCache.get_graph with the services it calls: discovery, change detection,
   publication and compilation. A call is suspended only while discover_tools waits;
   what follows runs without a break in the event loop. *)

\* the tool objects of a discovery: built-in tools carry no _mcp_server_name
AsTools(names) == [i \in DOMAIN names |-> Tool(names[i], "none")]

\* tool_publisher.py line 145: the message of a change
ToolUpdateMessage(messageId, added_tools, removed_tools) ==
    [messageId |-> messageId, addedTools |-> added_tools, removedTools |-> removed_tools]

\* what the push gives while the server can or cannot be reached
Sent(up) == IF up THEN Acked ELSE Refused

\* _process_queued_messages lines 293-304 while every push is acknowledged
RECURSIVE Flushed(_, _)
Flushed(list, queue) ==
    IF queue = <<>> THEN list
    ELSE Flushed(rpush(list, Head(queue), Acked), Tail(queue))

\* publish_tool_changes as one call of a single caller: the message is pushed and the
\* buffer flushed behind it, or the message is buffered
Published(p, added_tools, removed_tools, up) ==
    LET message == ToolUpdateMessage(p.created + 1, added_tools, removed_tools)
        outcome == Sent(up) IN
    IF NoChanges(added_tools, removed_tools) THEN p
    ELSE IF outcome.ok
    THEN [p EXCEPT !.created = @ + 1, !._redis_client = TRUE, !.failed = 0,
                   !.list = Flushed(rpush(@, message, outcome), p._message_queue),
                   !._message_queue = <<>>]
    ELSE [p EXCEPT !.created = @ + 1, !._redis_client = TRUE, !.failed = @ + 1,
                   !.list = rpush(@, message, outcome),
                   !._message_queue = Queued(@, message),
                   !.dropped = IF Len(p._message_queue) >= _max_queue_size
                               THEN @ \cup {Head(p._message_queue)} ELSE @]

\* get_graph up to line 338: discover_tools has returned, or raised and get_graph with it
Discover(t, d) ==
    /\ tasks[t].pc = "idle"
    /\ tasks' = [tasks EXCEPT ![t] = IF d.ok
                                     THEN [NoTask EXCEPT !.pc = "discovered", !.all_tools = d.tools]
                                     ELSE NoTask]
    /\ UNCHANGED <<AgentVars, discovery, publisher, redis, available>>

\* get_graph lines 342-408: the changes are taken and the snapshot replaced, the
\* changes published if there are any, the graph compiled if there is none or the
\* fingerprint differs, and the graph returned
Resume(t) ==
    LET all_tools == tasks[t].all_tools
        current_tools == AsTools(all_tools)
        r == compare_tool_sets(discovery._cached_tool_inventory, current_tools) IN
    /\ tasks[t].pc = "discovered"
    /\ NoChanges(r.added, r.removed) \/ publisher.created < MaxMessages
    /\ discovery' = [discovery EXCEPT
                        !._cached_tool_inventory = UpdatedInventory(@, current_tools),
                        !.last = [NoDiscoveryCall EXCEPT !.op = "get_tool_changes",
                                                         !.tick = ~discovery.last.tick,
                                                         !.current_tools = current_tools,
                                                         !.added = r.added,
                                                         !.removed = r.removed]]
    /\ publisher' = Published(publisher, r.added, r.removed, available)
    /\ cache' = get_graph(cache, Discovered(all_tools))
    /\ tasks' = [u \in Tasks |->
                   IF u = t
                   THEN [tasks[t] EXCEPT !.pc = "idle", !.returned = TRUE]
                   ELSE [tasks[u] EXCEPT !.returned = FALSE,
                                         !.overtaken = @ \/ tasks[u].pc = "discovered"]]
    /\ UNCHANGED <<store, call, mem, chunks, hist, ids, ops, redis, available>>

\* the Redis server goes away
Fail ==
    /\ available
    /\ available' = FALSE
    /\ UNCHANGED <<AgentVars, discovery, publisher, redis, tasks>>

\* the Redis server comes back
Recover ==
    /\ ~available
    /\ available' = TRUE
    /\ UNCHANGED <<AgentVars, discovery, publisher, redis, tasks>>

NextGraph ==
    \/ \E t \in Tasks, d \in Orders : Discover(t, d)
    \/ \E t \in Tasks : Resume(t)
    \/ Fail
    \/ Recover

SpecGraph == Init /\ [][NextGraph]_vars

\* requests keep coming and are served: every task goes on discovering and resuming
SpecGraphLive ==
    /\ SpecGraph
    /\ \A t \in Tasks :
          /\ WF_vars(\E d \in Orders \ {DiscoveryError} : Discover(t, d))
          /\ WF_vars(Resume(t))

-----------------------------------------------------------------------------
(* Claims about get_graph and the services together *)

\* C37: whenever a get_graph call has returned, the tool names bound in the cached
\* graph are those of the cached snapshot and the stored fingerprint is that of the
\* same tools, whatever the order in which concurrent calls went on after discovery
GraphAndSnapshotAgree ==
    (\E t \in Tasks : tasks[t].returned) =>
       /\ cache.compiled
       /\ discovery._cached_tool_inventory.set
       /\ cache.tools = discovery._cached_tool_inventory.names
       /\ \A tools \in ToolLists :
            {tools[i] : i \in DOMAIN tools} = cache.tools =>
               cache.tools_hash = _compute_tools_hash(tools)
       /\ \E tools \in ToolLists : {tools[i] : i \in DOMAIN tools} = cache.tools

\* a call returned that had discovered its tools before another call returned with
\* other tools: it replaced the graph and the snapshot of that call
OvertakenCallReturned ==
    \E t \in Tasks :
       /\ tasks[t].returned /\ tasks[t].overtaken
       /\ cache.graph >= 2
       /\ cache.tools = {tasks[t].all_tools[i] : i \in DOMAIN tasks[t].all_tools}
       /\ discovery.last.removed # {}

\* the names of a set of tool entries
EntryNames(entries) == {e.name : e \in entries}

\* what a consumer holds after the messages of the list, taken in list order from an
\* empty set: addedTools are added, then removedTools removed
RECURSIVE Applied(_, _)
Applied(view, list) ==
    IF list = <<>> THEN view
    ELSE Applied((view \cup EntryNames(Head(list).addedTools))
                    \ EntryNames(Head(list).removedTools),
                 Tail(list))

\* C38: in every state where the retry buffer is empty and no message was ever dropped
\* by overflow or by clear_queue, the messages of the durable list, applied in list
\* order to an empty set, give exactly the cached tool inventory snapshot
ViewConverges ==
    (/\ publisher._message_queue = <<>>
     /\ publisher.dropped = {}
     /\ publisher.cleared = {}) =>
       Applied({}, publisher.list) = discovery._cached_tool_inventory.names

MessageIds == 1..MaxMessages

InBuffer(messageId) ==
    \E i \in DOMAIN publisher._message_queue : publisher._message_queue[i].messageId = messageId

OnList(messageId) ==
    \E i \in DOMAIN publisher.list : publisher.list[i].messageId = messageId

Dropped(messageId) == \E m \in publisher.dropped : m.messageId = messageId

\* C31: every message whose first send failed and that was not dropped by overflow is
\* eventually pushed to the durable list once the transport has become and stays
\* available, as get_graph calls keep being served; it does not stay in the retry
\* buffer forever (a message may stay only as long as the server is away again and
\* again; the last clause sets aside the runs in which the model makes no more messages)
BufferedIsEventuallyPushed ==
    \A messageId \in MessageIds :
       InBuffer(messageId) ~>
          \/ OnList(messageId)
          \/ Dropped(messageId)
          \/ ~available
          \/ publisher.created = MaxMessages

====
